---------------------------- MODULE Spec2Model ----------------------------
(***************************************************************************)
(* The MAL interpreter of impls/python.3 (step6_file.py): the value model  *)
(* (mal_types.py), the environment, the primitives (core.py), the          *)
(* trampolined evaluator eval_ast with the host call stack made explicit,  *)
(* and the REPL loop of main().                                            *)
(***************************************************************************)
EXTENDS Integers, Sequences, FiniteSets, TLC

(***************************************************************************)
(* Bounds of the model.                                                    *)
(***************************************************************************)
\* largest n of the tail-recursive call (f n)
MaxN == 3
\* most fixed parameters before the & marker, and most rest arguments
MaxFixed == 2
MaxRest == 2
\* largest absolute value of an operand of an arithmetic primitive
MaxOperand == 3
MaxFact == 6

(***************************************************************************)
(* mal_types.py: the Expression variants.  A value is a record [t, v]: t   *)
(* is the variant (the Python class), v its payload.  Strings carry their  *)
(* characters as a sequence; Atoms and Closures are Python objects with    *)
(* identity, so an Atom is a reference into the heap `atoms` and a Closure *)
(* carries the number of its FunctionDefinition object.                    *)
(***************************************************************************)
Nil == [t |-> "nil", v |-> 0]
TrueV == [t |-> "true", v |-> 0]
FalseV == [t |-> "false", v |-> 0]
Number(n) == [t |-> "num", v |-> n]
String(cs) == [t |-> "str", v |-> cs]
Symbol(s) == [t |-> "sym", v |-> s]
Keyword(s) == [t |-> "kw", v |-> s]
List(xs) == [t |-> "list", v |-> xs]
Vector(xs) == [t |-> "vec", v |-> xs]
\* a dict in insertion order: a sequence of <<key, value>> with distinct keys
HashMap(kvs) == [t |-> "map", v |-> kvs]
\* a primitive, named by its key in get_namespace()
Function(name) == [t |-> "fn", v |-> name]
FunctionDefinition(params, body, env, id) ==
    [t |-> "closure", v |-> [params |-> params, body |-> body, env |-> env, id |-> id]]
Atom(id) == [t |-> "atom", v |-> id]

\* an exception object: its class and constructor arguments
Exc(cls, args) == [t |-> "exc", v |-> [cls |-> cls, args |-> args]]

\* the subclasses of MalException (everything else is a host exception)
MalException ==
    {"NonFunctionFormAtFirstListITem", "SymbolNotFound", "WrongNumberOfArguments",
     "UnexpectedArgument", "UnexpectedNumberOfArguments", "ParsingError", "MalIOError",
     "CarOnEmptyList", "CdrOnEmptyList", "BadNumberOfArguments", "BadNumberOfAssignations",
     "NotAssignationInLet", "ExpectedSymbolInLetDefinition", "EmptyDoBlock",
     "NonSymbolInBinding", "ExpectedListOfBindings"}

IsSeq(x) == x.t \in {"list", "vec"}

\* TrueV/FalseV/Nil.__bool__; every other class has no __bool__ and no __len__
Truthy_zeroAndEmptyFalsy(x) ==
    /\ x.t \notin {"nil", "false"}
    /\ ~(x.t = "num" /\ x.v = 0)
    /\ ~(x.t \in {"list", "vec", "str", "map"} /\ Len(x.v) = 0)

Truthy(x) == x.t \notin {"nil", "false"}

bool_to_mal_bool(b) == IF b THEN TrueV ELSE FalseV

(***************************************************************************)
(* Python's == on the dataclasses (the generated __eq__): "T", "F", or "R" *)
(* when the comparison recurses without end (RecursionError).  h is the    *)
(* atom heap; seen holds the atom pairs on the current path.               *)
(***************************************************************************)
MapHas(kvs, k) == \E i \in 1..Len(kvs) : kvs[i][1] = k
MapGet(kvs, k) == kvs[CHOOSE i \in 1..Len(kvs) : kvs[i][1] = k][2]
MapKeys(kvs) == {kvs[i][1] : i \in 1..Len(kvs)}

RECURSIVE PyEq(_, _, _, _)
RECURSIVE PyEqList(_, _, _, _, _)
RECURSIVE PyEqDict(_, _, _, _, _)
PyEqList(h, xs, ys, i, seen) ==
    IF i > Len(xs) THEN "T"
    ELSE LET r == PyEq(h, xs[i], ys[i], seen)
         IN IF r = "T" THEN PyEqList(h, xs, ys, i + 1, seen) ELSE r

PyEqDict(h, xs, ys, i, seen) ==
    IF i > Len(xs) THEN "T"
    ELSE IF ~MapHas(ys, xs[i][1]) THEN "F"
    ELSE LET r == PyEq(h, xs[i][2], MapGet(ys, xs[i][1]), seen)
         IN IF r = "T" THEN PyEqDict(h, xs, ys, i + 1, seen) ELSE r

PyEq(h, x, y, seen) ==
    IF x.t # y.t THEN "F"
    ELSE CASE x.t \in {"nil", "true", "false"} -> "T"
           [] x.t \in {"sym", "kw", "num", "str", "fn"} -> IF x.v = y.v THEN "T" ELSE "F"
           [] x.t \in {"list", "vec"} ->
                IF Len(x.v) # Len(y.v) THEN "F" ELSE PyEqList(h, x.v, y.v, 1, seen)
           [] x.t = "map" ->
                IF Len(x.v) # Len(y.v) THEN "F" ELSE PyEqDict(h, x.v, y.v, 1, seen)
           [] x.t = "closure" -> IF x.v.id = y.v.id THEN "T" ELSE "F"
           [] x.t = "atom" ->
                IF x.v = y.v THEN "T"
                ELSE IF <<x.v, y.v>> \in seen THEN "R"
                ELSE PyEq(h, h[x.v], h[y.v], seen \cup {<<x.v, y.v>>})

(***************************************************************************)
(* core.py eq, on two arguments: "T", "F" or "R".                          *)
(***************************************************************************)
RECURSIVE eq3(_, _, _)
RECURSIVE eq_all(_, _, _, _)
eq_all(h, xs, ys, i) ==
    IF i > Len(xs) \/ i > Len(ys) THEN "T"
    ELSE LET r == eq3(h, xs[i], ys[i])
         IN IF r = "T" THEN eq_all(h, xs, ys, i + 1) ELSE r

\* a slip: sequences compared like every other pair, by class and then ==
eq3_noListVector(h, x, y) ==
    IF x.t # y.t THEN "F" ELSE PyEq(h, x, y, {})

\* a slip: the payloads (.value) compared where the classes should be
PayloadText(x) == IF x.t = "str" THEN x.v ELSE <<x.v>>
eq3_payloads(h, x, y) ==
    IF IsSeq(x) /\ IsSeq(y)
    THEN IF Len(x.v) # Len(y.v) THEN "F" ELSE eq_all(h, x.v, y.v, 1)
    ELSE IF x.t \in {"str", "kw"} /\ y.t \in {"str", "kw"}
    THEN IF PayloadText(x) = PayloadText(y) THEN "T" ELSE "F"
    ELSE IF x.t # y.t THEN "F"
    ELSE PyEq(h, x, y, {})

eq3(h, x, y) ==
    IF IsSeq(x) /\ IsSeq(y)
    THEN IF Len(x.v) # Len(y.v) THEN "F" ELSE eq_all(h, x.v, y.v, 1)
    ELSE IF x.t # y.t THEN "F"
    ELSE PyEq(h, x, y, {})

(***************************************************************************)
(* Text is a sequence of chunks: single characters, or whole literals and  *)
(* names.  A printer result is [ok, s]: ok is FALSE when the host raises   *)
(* RecursionError.                                                         *)
(***************************************************************************)
Ok(s) == [ok |-> TRUE, s |-> s]
RecursionError == [ok |-> FALSE, s |-> <<"RecursionError">>]

Digit(d) == <<"0", "1", "2", "3", "4", "5", "6", "7", "8", "9">>[d + 1]
RECURSIVE NatChars(_)
NatChars(n) == IF n < 10 THEN <<Digit(n)>> ELSE NatChars(n \div 10) \o <<Digit(n % 10)>>
\* str(int)
IntChars(n) == IF n < 0 THEN <<"-">> \o NatChars(-n) ELSE NatChars(n)

\* str.replace of one character by a text
RECURSIVE Replace(_, _, _)
Replace(cs, c, to) ==
    IF cs = <<>> THEN <<>>
    ELSE (IF Head(cs) = c THEN to ELSE <<Head(cs)>>) \o Replace(Tail(cs), c, to)

\* sep.join(parts), parts a sequence of texts
RECURSIVE Join(_, _)
Join(parts, sep) ==
    IF parts = <<>> THEN <<>>
    ELSE IF Len(parts) = 1 THEN parts[1]
    ELSE parts[1] \o sep \o Join(Tail(parts), sep)

\* repr() of the dataclasses, with reprlib's guard against re-entering an
\* object; callables and environments hold host addresses and print opaquely
RECURSIVE Repr(_, _, _)
RECURSIVE ReprAll(_, _, _, _)
ReprAll(h, xs, i, seen) ==
    IF i > Len(xs) THEN <<>>
    ELSE Repr(h, xs[i], seen) \o (IF i < Len(xs) THEN <<", ">> ELSE <<>>)
           \o ReprAll(h, xs, i + 1, seen)

PyStrRepr(cs) ==
    LET hasS == \E i \in 1..Len(cs) : cs[i] = "'"
        hasD == \E i \in 1..Len(cs) : cs[i] = "\""
        q == IF hasS /\ ~hasD THEN "\"" ELSE "'"
        a == Replace(cs, "\\", <<"\\", "\\">>)
        b == Replace(a, "\n", <<"\\", "n">>)
        c == IF q = "'" THEN Replace(b, "'", <<"\\", "'">>) ELSE b
    IN <<q>> \o c \o <<q>>

Repr(h, x, seen) ==
    CASE x.t = "nil" -> <<"Nil()">>
      [] x.t = "true" -> <<"TrueV()">>
      [] x.t = "false" -> <<"FalseV()">>
      [] x.t = "num" -> <<"Number(value=">> \o IntChars(x.v) \o <<")">>
      [] x.t = "str" -> <<"String(value=">> \o PyStrRepr(x.v) \o <<")">>
      [] x.t = "sym" -> <<"Symbol(symbol='", x.v, "')">>
      [] x.t = "kw" -> <<"Keyword(value='", x.v, "')">>
      [] x.t = "list" -> <<"List(value=[">> \o ReprAll(h, x.v, 1, seen) \o <<"])">>
      [] x.t = "vec" -> <<"Vector(value=[">> \o ReprAll(h, x.v, 1, seen) \o <<"])">>
      [] x.t = "map" ->
           <<"HashMap(value={">>
             \o Join([i \in 1..Len(x.v) |->
                        Repr(h, x.v[i][1], seen) \o <<": ">> \o Repr(h, x.v[i][2], seen)],
                     <<", ">>)
             \o <<"})">>
      [] x.t = "fn" -> <<"Function(value=<function ", x.v, ">)">>
      [] x.t = "closure" -> <<"FunctionDefinition(<closure ">> \o IntChars(x.v.id) \o <<">)">>
      [] x.t = "atom" ->
           IF x.v \in seen THEN <<"...">>
           ELSE <<"Atom(value=">> \o Repr(h, h[x.v], seen \cup {x.v}) \o <<")">>

\* the chunks of a text as one name
RECURSIVE Concat(_)
Concat(s) == IF s = <<>> THEN "" ELSE Head(s) \o Concat(Tail(s))

(***************************************************************************)
(* mal_types.py Pretty: the printer, readable or not.  seen holds the      *)
(* atoms being printed on the current path: printing one of them again     *)
(* never returns.                                                          *)
(***************************************************************************)
RECURSIVE Pretty(_, _, _, _)
RECURSIVE PrettyAll(_, _, _, _, _)
\* [e.visit(self) for e in xs] joined by single spaces
PrettyAll(h, xs, i, readably, seen) ==
    IF i > Len(xs) THEN Ok(<<>>)
    ELSE LET r == Pretty(h, xs[i], readably, seen)
         IN IF ~r.ok THEN r
            ELSE LET rest == PrettyAll(h, xs, i + 1, readably, seen)
                 IN IF ~rest.ok THEN rest
                    ELSE Ok(r.s \o (IF i < Len(xs) THEN <<" ">> ELSE <<>>) \o rest.s)

\* a slip: the backslashes of the value left as they are
visit_string_backslashKept(cs, readably) ==
    IF ~readably THEN cs
    ELSE <<"\"">> \o Replace(Replace(cs, "\n", <<"\\", "n">>), "\"", <<"\\", "\"">>) \o <<"\"">>

visit_string(cs, readably) ==
    IF ~readably THEN cs
    ELSE LET after_backslash == Replace(cs, "\\", <<"\\", "\\">>)
             after_breaks == Replace(after_backslash, "\n", <<"\\", "n">>)
             final == Replace(after_breaks, "\"", <<"\\", "\"">>)
         IN <<"\"">> \o final \o <<"\"">>

\* k1 v1 k2 v2 ... of a dict
RECURSIVE Flatten(_)
Flatten(kvs) == IF kvs = <<>> THEN <<>> ELSE <<kvs[1][1], kvs[1][2]>> \o Flatten(Tail(kvs))

Wrap(open, r, close) == IF r.ok THEN Ok(<<open>> \o r.s \o <<close>>) ELSE r

Pretty(h, x, readably, seen) ==
    CASE x.t = "sym" -> Ok(<<x.v>>)
      [] x.t = "kw" -> Ok(<<":", x.v>>)
      [] x.t = "num" -> Ok(IntChars(x.v))
      [] x.t = "true" -> Ok(<<"t", "r", "u", "e">>)
      [] x.t = "false" -> Ok(<<"f", "a", "l", "s", "e">>)
      [] x.t = "nil" -> Ok(<<"n", "i", "l">>)
      [] x.t = "str" -> Ok(visit_string(x.v, readably))
      [] x.t = "list" -> Wrap("(", PrettyAll(h, x.v, 1, readably, seen), ")")
      [] x.t = "vec" -> Wrap("[", PrettyAll(h, x.v, 1, readably, seen), "]")
      [] x.t = "map" -> Wrap("{", PrettyAll(h, Flatten(x.v), 1, readably, seen), "}")
      [] x.t \in {"fn", "closure"} -> Ok(Repr(h, x, {}))
      [] x.t = "atom" ->
           LET differs == PyEq(h, x, h[x.v], {})
           IN IF differs = "R" THEN RecursionError
              ELSE IF differs = "T" THEN Ok(Repr(h, x, {}))
              ELSE IF x.v \in seen THEN RecursionError
              ELSE Wrap("(atom ", Pretty(h, h[x.v], readably, seen \cup {x.v}), ")")

\* print_mal / pr_str of a list of values, joined by sep
RECURSIVE PrettyJoin(_, _, _, _)
PrettyJoin(h, xs, readably, sep) ==
    IF xs = <<>> THEN Ok(<<>>)
    ELSE LET r == Pretty(h, Head(xs), readably, {})
         IN IF ~r.ok THEN r
            ELSE IF Len(xs) = 1 THEN r
            ELSE LET rest == PrettyJoin(h, Tail(xs), readably, sep)
                 IN IF ~rest.ok THEN rest ELSE Ok(r.s \o sep \o rest.s)

(***************************************************************************)
(* mal_types.py Environment.  The heap `envs` is a sequence of             *)
(* [data, outer]; an environment is its index, outer = 0 is None.          *)
(***************************************************************************)
EmptyDict == [k \in {} |-> Nil]
\* a slip: a name already bound keeps its value
DictSet_keepBound(d, k, val) ==
    [kk \in (DOMAIN d) \cup {k} |-> IF kk \in DOMAIN d THEN d[kk] ELSE val]

DictSet(d, k, val) == [kk \in (DOMAIN d) \cup {k} |-> IF kk = k THEN val ELSE d[kk]]

\* a slip: the environment written to becomes its own outer
Environment_set_selfOuter(es, e, name, val) ==
    [es EXCEPT ![e] = [data |-> DictSet(es[e].data, name, val), outer |-> e]]

Environment_set(es, e, name, val) ==
    [es EXCEPT ![e] = [data |-> DictSet(es[e].data, name, val), outer |-> es[e].outer]]

\* a slip: the outer environments searched first
RECURSIVE Environment_find_outerFirst(_, _, _)
Environment_find_outerFirst(es, e, name) ==
    LET up == IF es[e].outer = 0 THEN [found |-> FALSE, v |-> Nil]
              ELSE Environment_find_outerFirst(es, es[e].outer, name)
    IN IF up.found THEN up
       ELSE IF name \in DOMAIN es[e].data THEN [found |-> TRUE, v |-> es[e].data[name]]
       ELSE up

RECURSIVE Environment_find(_, _, _)
Environment_find(es, e, name) ==
    IF name \in DOMAIN es[e].data THEN [found |-> TRUE, v |-> es[e].data[name]]
    ELSE IF es[e].outer = 0 THEN [found |-> FALSE, v |-> Nil]
    ELSE Environment_find(es, es[e].outer, name)

\* the binding loop of Environment.__init__: [ok, data], ok FALSE on IndexError
RECURSIVE Environment_bind(_, _, _, _)
Environment_bind(binds, expressions, i, data) ==
    IF i > Len(binds) THEN [ok |-> TRUE, data |-> data]
    ELSE IF binds[i].v = "&"
    THEN IF i + 1 > Len(binds) THEN [ok |-> FALSE, data |-> data]
         ELSE [ok |-> TRUE,
               data |-> DictSet(data, binds[i + 1].v,
                                List(IF i > Len(expressions) THEN <<>>
                                     ELSE SubSeq(expressions, i, Len(expressions))))]
    ELSE IF i > Len(expressions) THEN [ok |-> FALSE, data |-> data]
    ELSE Environment_bind(binds, expressions, i + 1, DictSet(data, binds[i].v, expressions[i]))

Environment_init(binds, expressions) == Environment_bind(binds, expressions, 1, EmptyDict)

(***************************************************************************)
(* parser.py: the reader.  A text is a sequence of characters.  The        *)
(* grammar is read as Lark reads it with lexer="basic" and parser="lalr":  *)
(* the lexer takes, at each position, the first terminal that matches in   *)
(* the order (priority, width), greedily, without regard to the parser's   *)
(* state; the parser accepts one expression followed by the end of input;  *)
(* the transformer then builds the Expression bottom-up.                   *)
(***************************************************************************)
\* the characters of a name
Explode(name) == [i \in 1..Len(name) |-> SubSeq(name, i, i)]
RECURSIVE Chars(_)
Chars(chunks) == IF chunks = <<>> THEN <<>> ELSE Explode(Head(chunks)) \o Chars(Tail(chunks))

\* the backquote character, which no string of this module can hold
Backquote == "<backquote>"
\* \s of the regular expressions
WhiteSpace == {" ", "\t", "\n", "\r", "\f"}
Digits == {"0", "1", "2", "3", "4", "5", "6", "7", "8", "9"}
\* SYMBOL: /[^\s\[\]{}('"`,;)]+/
SymbolChar(c) ==
    c \notin WhiteSpace \cup {"[", "]", "{", "}", "(", "'", "\"", Backquote, ",", ";", ")"}

RECURSIVE SymbolEnd(_, _)
SymbolEnd(cs, i) == IF i <= Len(cs) /\ SymbolChar(cs[i]) THEN SymbolEnd(cs, i + 1) ELSE i
RECURSIVE DigitsEnd(_, _)
DigitsEnd(cs, i) == IF i <= Len(cs) /\ cs[i] \in Digits THEN DigitsEnd(cs, i + 1) ELSE i
RECURSIVE ZerosEnd(_, _)
ZerosEnd(cs, i) == IF i <= Len(cs) /\ cs[i] = "0" THEN ZerosEnd(cs, i + 1) ELSE i
\* COMMENT: /;.*/ (. matches no newline)
RECURSIVE CommentEnd(_, _)
CommentEnd(cs, i) == IF i <= Len(cs) /\ cs[i] # "\n" THEN CommentEnd(cs, i + 1) ELSE i

\* STRING_COMMON from j on, (/\\.|[^"\\]/)*: it ends at a closing quote
\* (STRING), at the end of the text (UNBALANCED_STRING), or at a backslash
\* nothing can follow (no terminal matches)
RECURSIVE STRING_COMMON(_, _)
STRING_COMMON(cs, j) ==
    IF j > Len(cs) THEN [k |-> "open", j |-> j]
    ELSE IF cs[j] = "\"" THEN [k |-> "closed", j |-> j]
    ELSE IF cs[j] = "\\"
    THEN IF j + 1 <= Len(cs) /\ cs[j + 1] # "\n" THEN STRING_COMMON(cs, j + 2)
         ELSE [k |-> "stuck", j |-> j]
    ELSE STRING_COMMON(cs, j + 1)

HasPrefix(cs, i, lit) ==
    i + Len(lit) - 1 <= Len(cs) /\ SubSeq(cs, i, i + Len(lit) - 1) = lit

\* the string terminals of one character
Punctuation ==
    [c \in {"{", "}", "(", ")", "[", "]", "'", Backquote, "~", "^", "@"} |->
        CASE c = "{" -> "LBRACE" [] c = "}" -> "RBRACE"
          [] c = "(" -> "LPAREN" [] c = ")" -> "RPAREN"
          [] c = "[" -> "LBRACKET" [] c = "]" -> "RBRACKET"
          [] c = "'" -> "SINGLE_QUOTE" [] c = Backquote -> "BACKTICK"
          [] c = "~" -> "TILDE" [] c = "^" -> "HAT" [] c = "@" -> "AT"]

\* the terminal that matches at i, and where it ends (ty "" when none does)
Terminal(ty, end) == [ty |-> ty, end |-> end]
\* STRING, UNBALANCED_STRING or neither, for the text that opens at i
StringTerminal(i, e) ==
    IF e.k = "closed" THEN Terminal("STRING", e.j + 1)
    ELSE IF e.k = "open" THEN Terminal("UNBALANCED_STRING", e.j)
    ELSE Terminal("", i)
NextToken(cs, i) ==
    LET c == cs[i]
        two == i + 1 <= Len(cs)
    IN IF c \in WhiteSpace \/ c = "," THEN Terminal("SPACES", i + 1)
       ELSE IF c = ";" THEN Terminal("COMMENT", CommentEnd(cs, i + 1))
       ELSE IF c = "\""
       THEN StringTerminal(i, STRING_COMMON(cs, i + 1))
       ELSE IF c \in Digits \ {"0"} THEN Terminal("NUMBER", DigitsEnd(cs, i + 1))
       ELSE IF c = "-" /\ two /\ cs[i + 1] \in Digits \ {"0"}
       THEN Terminal("NUMBER", DigitsEnd(cs, i + 2))
       ELSE IF c = "0" THEN Terminal("NUMBER", ZerosEnd(cs, i + 1))
       ELSE IF c = ":" /\ two /\ SymbolChar(cs[i + 1])
       THEN Terminal("KEYWORD", SymbolEnd(cs, i + 1))
       ELSE IF HasPrefix(cs, i, <<"f", "a", "l", "s", "e">>) THEN Terminal("FALSE", i + 5)
       ELSE IF HasPrefix(cs, i, <<"t", "r", "u", "e">>) THEN Terminal("TRUE", i + 4)
       ELSE IF HasPrefix(cs, i, <<"n", "i", "l">>) THEN Terminal("NIL", i + 3)
       ELSE IF HasPrefix(cs, i, <<"~", "@">>) THEN Terminal("SPECIAL", i + 2)
       ELSE IF c \in DOMAIN Punctuation THEN Terminal(Punctuation[c], i + 1)
       ELSE IF SymbolChar(c) THEN Terminal("SYMBOL", SymbolEnd(cs, i))
       ELSE Terminal("", i)

\* the tokens of the text from i on, SPACES and COMMENT left out; where no
\* terminal matches the tokens end with one of type ""
RECURSIVE Lex(_, _)
\* ... given the terminal t that matches at i
LexFrom(cs, i, t) ==
    IF t.ty = "" THEN <<[ty |-> "", tx |-> <<>>]>>
    ELSE IF t.ty \in {"SPACES", "COMMENT"} THEN Lex(cs, t.end)
    ELSE <<[ty |-> t.ty, tx |-> SubSeq(cs, i, t.end - 1)]>> \o Lex(cs, t.end)
Lex(cs, i) == IF i > Len(cs) THEN <<>> ELSE LexFrom(cs, i, NextToken(cs, i))

\* int(token.value)
DigitValue(c) == CHOOSE d \in 0..9 : Digit(d) = c
RECURSIVE NatValue(_)
NatValue(ds) ==
    IF ds = <<>> THEN 0 ELSE 10 * NatValue(SubSeq(ds, 1, Len(ds) - 1)) + DigitValue(ds[Len(ds)])
IntValue(ds) == IF Head(ds) = "-" THEN -NatValue(Tail(ds)) ELSE NatValue(ds)

\* TransformLisP.STRING: the escapes \n, \\ and \" undone, any other escaped
\* character dropped; [ok, s], ok FALSE for WrongBackslash
RECURSIVE Unescape(_)
Unescape(text) ==
    IF text = <<>> THEN Ok(<<>>)
    ELSE IF Head(text) = "\\"
    THEN IF Len(text) >= 2
         THEN LET rest == Unescape(SubSeq(text, 3, Len(text)))
                  c == CASE text[2] = "n" -> <<"\n">>
                         [] text[2] = "\\" -> <<"\\">>
                         [] text[2] = "\"" -> <<"\"">>
                         [] OTHER -> <<>>
              IN IF rest.ok THEN Ok(c \o rest.s) ELSE rest
         ELSE [ok |-> FALSE, s |-> <<"WrongBackslash">>]
    ELSE LET rest == Unescape(Tail(text))
         IN IF rest.ok THEN Ok(<<Head(text)>> \o rest.s) ELSE rest

\* what the transformer raised in place of a String
Unbalanced == [t |-> "raised", v |-> "UnbalancedString"]
WrongBackslash == [t |-> "raised", v |-> "WrongBackslash"]
TransformLisP_STRING(tx) ==
    LET r == Unescape(SubSeq(tx, 2, Len(tx) - 1))
    IN IF r.ok THEN String(r.s) ELSE WrongBackslash

\* acc[key] = value
MapPut(kvs, key, val) ==
    IF MapHas(kvs, key)
    THEN [i \in 1..Len(kvs) |-> IF kvs[i][1] = key THEN <<key, val>> ELSE kvs[i]]
    ELSE Append(kvs, <<key, val>>)

\* the result of parsing from token i: the Expression v, the token after it,
\* and the lines hash_map1 prints; or the token that fits no rule
Parsed(v, next, out) == [ok |-> TRUE, v |-> v, next |-> next, out |-> out]
Unexpected(i) == [ok |-> FALSE, v |-> Nil, next |-> i, out |-> <<>>]

ReaderMacro ==
    [ty \in {"SINGLE_QUOTE", "BACKTICK", "TILDE", "SPECIAL", "AT"} |->
        CASE ty = "SINGLE_QUOTE" -> "quote"
          [] ty = "BACKTICK" -> "quasiquote"
          [] ty = "TILDE" -> "unquote"
          [] ty = "SPECIAL" -> "splice-unquote"
          [] ty = "AT" -> "deref"]

RECURSIVE expression(_, _)
RECURSIVE list_items(_, _, _, _, _)
RECURSIVE hash_map_items(_, _, _, _, _)
\* expression+ up to the closing token; e is the next expression
list_items_more(ts, close, acc, out, e) ==
    IF ~e.ok THEN e
    ELSE list_items(ts, e.next, close, Append(acc, e.v), out \o e.out)
list_items(ts, i, close, acc, out) ==
    IF i > Len(ts) THEN Unexpected(i)
    ELSE IF ts[i].ty = close THEN Parsed(acc, i + 1, out)
    ELSE list_items_more(ts, close, acc, out, expression(ts, i))

\* hash_map_item+ up to RBRACE; hash_map1 prints every key and value
hash_map_key(tok) ==
    IF tok.ty = "STRING" THEN TransformLisP_STRING(tok.tx) ELSE Keyword(Concat(Tail(tok.tx)))
hash_map_item(ts, kvs, out, lines, key, e) ==
    IF ~e.ok THEN e
    ELSE hash_map_items(ts, e.next, MapPut(kvs, key, e.v), out \o e.out,
                        Append(lines, Repr(<<>>, key, {}) \o <<" ">> \o Repr(<<>>, e.v, {})))
hash_map_items(ts, i, kvs, out, lines) ==
    IF i > Len(ts) THEN Unexpected(i)
    ELSE IF ts[i].ty = "RBRACE" THEN Parsed(HashMap(kvs), i + 1, out \o lines)
    ELSE IF ts[i].ty \notin {"STRING", "KEYWORD"} THEN Unexpected(i)
    ELSE hash_map_item(ts, kvs, out, lines, hash_map_key(ts[i]), expression(ts, i + 1))

\* quote, quasiquote, unquote, splice_unquote, deref: (name e)
quote(name, e) ==
    IF ~e.ok THEN e ELSE Parsed(List(<<Symbol(name), e.v>>), e.next, e.out)
\* meta: (with-meta e2 e1)
meta(e1, e2) ==
    IF ~e2.ok THEN e2
    ELSE Parsed(List(<<Symbol("with-meta"), e2.v, e1.v>>), e2.next, e1.out \o e2.out)
meta_second(ts, e1) == IF ~e1.ok THEN e1 ELSE meta(e1, expression(ts, e1.next))
list1(r) == IF r.ok THEN Parsed(List(r.v), r.next, r.out) ELSE r
vector1(r) == IF r.ok THEN Parsed(Vector(r.v), r.next, r.out) ELSE r

expression(ts, i) ==
    IF i > Len(ts) THEN Unexpected(i)
    ELSE LET ty == ts[i].ty
             tx == ts[i].tx
         IN CASE ty = "TRUE" -> Parsed(TrueV, i + 1, <<>>)
              [] ty = "FALSE" -> Parsed(FalseV, i + 1, <<>>)
              [] ty = "NIL" -> Parsed(Nil, i + 1, <<>>)
              [] ty = "NUMBER" -> Parsed(Number(IntValue(tx)), i + 1, <<>>)
              [] ty = "KEYWORD" -> Parsed(Keyword(Concat(Tail(tx))), i + 1, <<>>)
              [] ty = "SYMBOL" -> Parsed(Symbol(Concat(tx)), i + 1, <<>>)
              [] ty = "STRING" -> Parsed(TransformLisP_STRING(tx), i + 1, <<>>)
              [] ty = "UNBALANCED_STRING" -> Parsed(Unbalanced, i + 1, <<>>)
              [] ty \in DOMAIN ReaderMacro -> quote(ReaderMacro[ty], expression(ts, i + 1))
              [] ty = "HAT" -> meta_second(ts, expression(ts, i + 1))
              [] ty = "LPAREN" -> list1(list_items(ts, i + 1, "RPAREN", <<>>, <<>>))
              [] ty = "LBRACKET" -> vector1(list_items(ts, i + 1, "RBRACKET", <<>>, <<>>))
              [] ty = "LBRACE" -> hash_map_items(ts, i + 1, <<>>, <<>>, <<>>)
              [] OTHER -> Unexpected(i)

\* the first exception a transformer callback raised, if any
RECURSIVE RaisedIn(_)
RaisedIn(v) ==
    CASE v.t = "raised" -> {v.v}
      [] v.t \in {"list", "vec"} -> UNION {RaisedIn(v.v[i]) : i \in 1..Len(v.v)}
      [] v.t = "map" ->
           UNION {RaisedIn(v.v[i][1]) \cup RaisedIn(v.v[i][2]) : i \in 1..Len(v.v)}
      [] OTHER -> {}

\* the lines hash_map1 prints while the Expression x is built
RECURSIVE ReadPrints(_)
RECURSIVE ReadPrintsAll(_)
ReadPrintsAll(xs) ==
    IF xs = <<>> THEN <<>> ELSE ReadPrints(Head(xs)) \o ReadPrintsAll(Tail(xs))
ReadPrints(x) ==
    CASE x.t \in {"list", "vec"} -> ReadPrintsAll(x.v)
      [] x.t = "map" ->
           ReadPrintsAll([i \in 1..Len(x.v) |-> x.v[i][2]])
             \o [i \in 1..Len(x.v) |->
                   Repr(<<>>, x.v[i][1], {}) \o <<" ">> \o Repr(<<>>, x.v[i][2], {})]
      [] OTHER -> <<>>

\* parse_str: [ok, v, out], or [ok FALSE, msg] when it returns a str
ParseFailure(msg) == [ok |-> FALSE, v |-> Nil, out |-> <<>>, msg |-> msg]
UnexpectedInput(ts, i) ==
    IF i > Len(ts) THEN ParseFailure(<<"Error! unexpected EOF">>)
    ELSE IF ts[i].ty = "" THEN ParseFailure(<<"No terminal matches">>)
    ELSE ParseFailure(<<"Unexpected token ">> \o ts[i].tx)
\* lines 275-284: the transformer ran on the tree; raised is what it raised
transform(v, out, raised) ==
    IF "UnbalancedString" \in raised
    THEN ParseFailure(<<"Error! unbalanced string at ">>)
    ELSE IF raised # {}
    THEN ParseFailure(<<"Error! while transforming the tree after parsing: ">>)
    ELSE [ok |-> TRUE, v |-> v, out |-> out, msg |-> <<>>]
\* lines 266-274: lark.parse wants one expression and then the end of the text
lark_parse(ts, r) ==
    IF ~r.ok \/ r.next <= Len(ts) THEN UnexpectedInput(ts, r.next)
    ELSE transform(r.v, r.out, RaisedIn(r.v))
parse_tokens(ts) == lark_parse(ts, expression(ts, 1))
parse_str(text) == parse_tokens(Lex(text, 1))

(***************************************************************************)
(* The state.                                                              *)
(***************************************************************************)
VARIABLES
    stdin,      \* the lines of the session
    pos,        \* how many of them input() has returned
    repl,       \* main(): "prompt" (at input), "eval" (inside rep), "eof", "crashed"
    stack,      \* the active eval_ast invocations, the innermost last
    ret,        \* what the invocation that just ended returned or raised
    envs,       \* the Environment objects; 1 is default_env
    atoms,      \* the Atom objects' value fields
    nclosures,  \* how many FunctionDefinition objects have been made
    stdout      \* the lines printed

vars == <<stdin, pos, repl, stack, ret, envs, atoms, nclosures, stdout>>

(***************************************************************************)
(* core.py: the primitives.  Calling one on evaluated arguments, with the  *)
(* atom heap h, gives an outcome:                                          *)
(*   k = "val":  it returns v;                                             *)
(*   k = "exc":  it raises v;                                              *)
(*   k = "call": it calls eval_ast(call.ast, call.env), in a new           *)
(*               environment [call.data, outer call.env] when call.fresh,  *)
(*               and what that returns is stored in the atoms of pend      *)
(*               (the swap! calls waiting for it) and returned.            *)
(* atoms is the heap afterwards and out the lines written to the terminal. *)
(***************************************************************************)
PyStr(s) == [t |-> "pystr", v |-> s]
EnvRef(e) == [t |-> "env", v |-> e]
NoCall == [ast |-> Nil, env |-> 0, fresh |-> FALSE, data |-> EmptyDict]
PVal(val, h, out) ==
    [k |-> "val", v |-> val, atoms |-> h, out |-> out, call |-> NoCall, pend |-> <<>>]
PExc(cls, args, h, out) ==
    [k |-> "exc", v |-> Exc(cls, args), atoms |-> h, out |-> out, call |-> NoCall,
     pend |-> <<>>]
PCall(ast, env, fresh, data, h) ==
    [k |-> "call", v |-> Nil, atoms |-> h, out |-> <<>>,
     call |-> [ast |-> ast, env |-> env, fresh |-> fresh, data |-> data], pend |-> <<>>]

\* Python's // and % on integers (the quotient rounded toward minus infinity;
\* a slip: toward zero)
FloorDiv_truncating(a, b) ==
    IF (a < 0) = (b < 0)
    THEN (IF a < 0 THEN -a ELSE a) \div (IF b < 0 THEN -b ELSE b)
    ELSE -((IF a < 0 THEN -a ELSE a) \div (IF b < 0 THEN -b ELSE b))

FloorDiv(a, b) == IF b > 0 THEN a \div b ELSE (-a) \div (-b)
PyMod(a, b) == a - b * FloorDiv(a, b)

\* get_namespace: the lambdas of + - / * %
arith(op, t, h) ==
    IF Len(t) < 1 THEN PExc("IndexError", <<>>, h, <<>>)
    ELSE IF t[1].t # "num" THEN PExc("UnexpectedArgument", <<t[1], PyStr(" a Number")>>, h, <<>>)
    ELSE IF Len(t) < 2 THEN PExc("IndexError", <<>>, h, <<>>)
    ELSE IF t[2].t # "num" THEN PExc("UnexpectedArgument", <<t[2], PyStr(" a Number")>>, h, <<>>)
    ELSE IF op \in {"/", "%"} /\ t[2].v = 0 THEN PExc("ZeroDivisionError", <<>>, h, <<>>)
    ELSE PVal(Number(CASE op = "+" -> t[1].v + t[2].v
                       [] op = "-" -> t[1].v - t[2].v
                       [] op = "*" -> t[1].v * t[2].v
                       [] op = "/" -> FloorDiv(t[1].v, t[2].v)
                       [] op = "%" -> PyMod(t[1].v, t[2].v)), h, <<>>)

\* le, leq, gt, geq
compare(op, args, h) ==
    IF Len(args) # 2
    THEN PExc("UnexpectedNumberOfArguments", <<PyStr("(" \o op \o ")"), Number(2)>>, h, <<>>)
    ELSE IF args[1].t # "num"
    THEN PExc("UnexpectedArgument", <<args[1], PyStr(" a Number")>>, h, <<>>)
    ELSE IF args[2].t # "num"
    THEN PExc("UnexpectedArgument", <<args[2], PyStr(" a Number")>>, h, <<>>)
    ELSE PVal(bool_to_mal_bool(CASE op = "<" -> args[1].v < args[2].v
                                 [] op = "<=" -> args[1].v <= args[2].v
                                 [] op = ">" -> args[1].v > args[2].v
                                 [] op = ">=" -> args[1].v >= args[2].v), h, <<>>)

eq(args, h) ==
    IF Len(args) # 2
    THEN PExc("UnexpectedNumberOfArguments", <<PyStr("(=)"), Number(2)>>, h, <<>>)
    ELSE LET r == eq3(h, args[1], args[2])
         IN IF r = "R" THEN PExc("RecursionError", <<>>, h, <<>>)
            ELSE PVal(bool_to_mal_bool(r = "T"), h, <<>>)

\* assert_argument_number(x, 1, name), then body
OneArg(x, name, h, body) ==
    IF Len(x) # 1
    THEN PExc("UnexpectedNumberOfArguments", <<PyStr(name), Number(1)>>, h, <<>>)
    ELSE body

\* pr_str, mal_str, prn, println
printing(name, args, h) ==
    LET readably == name \in {"pr-str", "prn"}
        r == PrettyJoin(h, args, readably, IF name = "str" THEN <<>> ELSE <<" ">>)
    IN IF ~r.ok THEN PExc("RecursionError", <<>>, h, <<>>)
       ELSE IF name \in {"pr-str", "str"} THEN PVal(String(r.s), h, <<>>)
       ELSE PVal(Nil, h, <<r.s>>)

\* step6_file.py 112-115 and 285: eval_ast(x[0], default_env), whatever the
\* environment of the caller (a slip: in the environment of the caller)
mal_eval_callerEnv(x, h) ==
    OneArg(x, "eval", h, PCall(x[1], stack[Len(stack)].env, FALSE, EmptyDict, h))

mal_eval(x, h) == OneArg(x, "eval", h, PCall(x[1], 1, FALSE, EmptyDict, h))

\* core.py 205-207: result is what parse_str returned
read_string(result, h) ==
    IF result.ok THEN PVal(result.v, h, result.out)
    ELSE PExc("ParsingError", <<PyStr(result.msg)>>, h, <<>>)

RECURSIVE ApplyPrim(_, _, _)
\* a slip: the atom's value handed over last, x[2:] + [a.value]
swap_valueLast(x, h) ==
    IF Len(x) < 2
    THEN PExc("UnexpectedNumberOfArguments", <<PyStr("swap"), Number(2)>>, h, <<>>)
    ELSE IF x[1].t # "atom" THEN PExc("UnexpectedArgument", <<x[1], PyStr(" a Atom")>>, h, <<>>)
    ELSE LET a == x[1].v
             f == x[2]
             args == SubSeq(x, 3, Len(x)) \o <<h[a]>>
         IN IF f.t = "fn"
            THEN LET r == ApplyPrim(f.v, args, h)
                 IN IF r.k = "val" THEN [r EXCEPT !.atoms = [r.atoms EXCEPT ![a] = r.v]]
                    ELSE IF r.k = "exc" THEN r
                    ELSE [r EXCEPT !.pend = Append(r.pend, a)]
            ELSE IF f.t = "closure"
            THEN LET b == Environment_init(f.v.params, args)
                 IN IF ~b.ok THEN PExc("IndexError", <<>>, h, <<>>)
                    ELSE [PCall(f.v.body, f.v.env, TRUE, b.data, h) EXCEPT !.pend = <<a>>]
            ELSE PExc("UnexpectedArgument", <<x[2], PyStr("a function")>>, h, <<>>)

swap(x, h) ==
    IF Len(x) < 2
    THEN PExc("UnexpectedNumberOfArguments", <<PyStr("swap"), Number(2)>>, h, <<>>)
    ELSE IF x[1].t # "atom" THEN PExc("UnexpectedArgument", <<x[1], PyStr(" a Atom")>>, h, <<>>)
    ELSE LET a == x[1].v
             f == x[2]
             args == <<h[a]>> \o SubSeq(x, 3, Len(x))
         IN IF f.t = "fn"
            THEN LET r == ApplyPrim(f.v, args, h)
                 IN IF r.k = "val" THEN [r EXCEPT !.atoms = [r.atoms EXCEPT ![a] = r.v]]
                    ELSE IF r.k = "exc" THEN r
                    ELSE [r EXCEPT !.pend = Append(r.pend, a)]
            ELSE IF f.t = "closure"
            THEN LET b == Environment_init(f.v.params, args)
                 IN IF ~b.ok THEN PExc("IndexError", <<>>, h, <<>>)
                    ELSE [PCall(f.v.body, f.v.env, TRUE, b.data, h) EXCEPT !.pend = <<a>>]
            ELSE PExc("UnexpectedArgument", <<x[2], PyStr("a function")>>, h, <<>>)

ApplyPrim(name, x, h) ==
    CASE name \in {"+", "-", "*", "/", "%"} -> arith(name, x, h)
      [] name \in {"<", "<=", ">", ">="} -> compare(name, x, h)
      [] name = "=" -> eq(x, h)
      [] name \in {"prn", "println", "pr-str", "str"} -> printing(name, x, h)
      [] name = "list" -> PVal(List(x), h, <<>>)
      [] name = "list?" -> OneArg(x, "list?", h, PVal(bool_to_mal_bool(x[1].t = "list"), h, <<>>))
      [] name = "empty?" ->
           OneArg(x, "empty?", h,
                  IF ~IsSeq(x[1]) THEN PExc("UnexpectedArgument", <<x[1], PyStr(" a sequence")>>, h, <<>>)
                  ELSE PVal(bool_to_mal_bool(Len(x[1].v) = 0), h, <<>>))
      [] name = "count" ->
           OneArg(x, "count", h,
                  IF x[1].t = "nil" THEN PVal(Number(0), h, <<>>)
                  ELSE IF ~IsSeq(x[1]) THEN PExc("UnexpectedArgument", <<x[1], PyStr(" a sequence")>>, h, <<>>)
                  ELSE PVal(Number(Len(x[1].v)), h, <<>>))
      [] name = "car" ->
           OneArg(x, "car", h,
                  IF x[1].t # "list" THEN PExc("UnexpectedArgument", <<x[1], PyStr(" a List")>>, h, <<>>)
                  ELSE IF Len(x[1].v) > 0 THEN PVal(x[1].v[1], h, <<>>)
                  ELSE PExc("CarOnEmptyList", <<>>, h, <<>>))
      [] name = "cdr" ->
           OneArg(x, "cdr", h,
                  IF x[1].t # "list" THEN PExc("UnexpectedArgument", <<x[1], PyStr(" a List")>>, h, <<>>)
                  ELSE IF Len(x[1].v) >= 1 THEN PVal(List(Tail(x[1].v)), h, <<>>)
                  ELSE PExc("CdrOnEmptyList", <<>>, h, <<>>))
      [] name = "atom" -> OneArg(x, "atom", h, PVal(Atom(Len(h) + 1), Append(h, x[1]), <<>>))
      [] name = "atom?" -> OneArg(x, "atom", h, PVal(bool_to_mal_bool(x[1].t = "atom"), h, <<>>))
      [] name = "deref" ->
           OneArg(x, "deref", h,
                  IF x[1].t # "atom" THEN PExc("UnexpectedArgument", <<x[1], PyStr(" a Atom")>>, h, <<>>)
                  ELSE PVal(h[x[1].v], h, <<>>))
      [] name = "reset!" ->
           IF Len(x) # 2
           THEN PExc("UnexpectedNumberOfArguments", <<PyStr("reset"), Number(2)>>, h, <<>>)
           ELSE IF x[1].t # "atom" THEN PExc("UnexpectedArgument", <<x[1], PyStr(" a Atom")>>, h, <<>>)
           ELSE PVal(x[2], [h EXCEPT ![x[1].v] = x[2]], <<>>)
      [] name = "swap!" -> swap(x, h)
      [] name = "read-string" ->
           OneArg(x, "read-string", h,
                  IF x[1].t # "str" THEN PExc("UnexpectedArgument", <<x[1], PyStr(" a String")>>, h, <<>>)
                  ELSE read_string(parse_str(x[1].v), h))
      [] name = "eval" -> mal_eval(x, h)

(***************************************************************************)
(* str(ex) of a MalException: the __str__ methods of step6_file.py,        *)
(* mal_types.py and core.py.  [ok, s]; ok is FALSE when __str__ itself     *)
(* raises a host exception, named by s.                                    *)
(***************************************************************************)
AttributeError == [ok |-> FALSE, s |-> <<"AttributeError">>]

\* lit1 + a.visit(p) + lit2 + b.visit(p)
Message2(h, lit1, a, lit2, b) ==
    LET pa == Pretty(h, a, TRUE, {})
        pb == Pretty(h, b, TRUE, {})
    IN IF ~pa.ok THEN pa
       ELSE IF ~pb.ok THEN pb
       ELSE Ok(<<lit1>> \o pa.s \o <<lit2>> \o pb.s)

Message1(h, lit1, a, lit2) ==
    LET pa == Pretty(h, a, TRUE, {})
    IN IF ~pa.ok THEN pa ELSE Ok(<<lit1>> \o pa.s \o lit2)

ExcStr(h, ex) ==
    LET cls == ex.v.cls
        a == ex.v.args
    IN CASE cls = "BadNumberOfArguments" ->
              Message2(h, "Error! bad number of arguments for:\n", a[1],
                       "\nIn expression: \n", a[2])
         \* self.expression.value[1:] is a host list, which has no visit
         [] cls = "BadNumberOfAssignations" -> AttributeError
         \* the class has the one field expression; __str__ reads non_symbol
         [] cls = "NotAssignationInLet" -> AttributeError
         [] cls = "ExpectedSymbolInLetDefinition" ->
              Message2(h, "Error! expected symbol inside let, found:\n", a[1], "\nIn: \n", a[2])
         [] cls = "EmptyDoBlock" -> Message1(h, "Error! empty do block: ", a[1], <<>>)
         [] cls = "NonSymbolInBinding" ->
              Message2(h, "Error! expected symbol, found:\n", a[1], "\nIn: \n", a[2])
         [] cls = "ExpectedListOfBindings" ->
              Message1(h, "Error! expected a non empty list of bindings, got: ", a[1], <<>>)
         [] cls = "NonFunctionFormAtFirstListITem" ->
              Message2(h, "Error! expected a function or form as first argument, got:\n", a[2],
                       "\nIn let expression: \n", List(a[3]))
         [] cls = "SymbolNotFound" ->
              Ok(<<"'", a[1].v, "' not found in the environment: ", "<Environment>">>)
         [] cls = "UnexpectedArgument" ->
              Message1(h, "Error! Unexpected argument ", a[1], <<", expected ", a[2].v>>)
         [] cls = "UnexpectedNumberOfArguments" ->
              Ok(<<"Error! bad number of arguments at ", a[1].v, " expected ">> \o IntChars(a[2].v))
         [] cls = "ParsingError" -> Ok(a[1].v)
         [] cls = "CarOnEmptyList" ->
              Ok(<<"Error! attempt to access head element of an empty list">>)
         [] cls = "CdrOnEmptyList" ->
              Ok(<<"Error! attempt to access tail of an empty list">>)

(***************************************************************************)
(* The lines typed at the prompt.  A line is given by what read() makes of *)
(* it: the Expression, or a reader error (a message).  A session is the    *)
(* sequence of lines of one run of the REPL.                               *)
(***************************************************************************)
ReadError(msg) == [t |-> "readerror", v |-> msg]
Form(head, args) == List(<<Symbol(head)>> \o args)

\* (def! f (fn* (n) (if (<= n 0) :done (f (- n 1)))))
TcoDef ==
    Form("def!", <<Symbol("f"),
        Form("fn*", <<List(<<Symbol("n")>>),
            Form("if", <<Form("<=", <<Symbol("n"), Number(0)>>), Keyword("done"),
                         Form("f", <<Form("-", <<Symbol("n"), Number(1)>>)>>)>>)>>)>>)
TcoCall(n) == Form("f", <<Number(n)>>)
TcoSessions == {<<TcoDef, TcoCall(n)>> : n \in 0..MaxN}

\* (def! mk (fn* (c) (fn* (a b) (list a b c)))), (def! g (mk 7)),
\* (let* (a 100 c 200) (g a 2))
MkDef ==
    Form("def!", <<Symbol("mk"),
        Form("fn*", <<List(<<Symbol("c")>>),
            Form("fn*", <<List(<<Symbol("a"), Symbol("b")>>),
                          Form("list", <<Symbol("a"), Symbol("b"), Symbol("c")>>)>>)>>)>>)
GDef == Form("def!", <<Symbol("g"), Form("mk", <<Number(7)>>)>>)
GCall ==
    Form("let*", <<List(<<Symbol("a"), Number(100), Symbol("c"), Number(200)>>),
                   Form("g", <<Symbol("a"), Number(2)>>)>>)
ClosureSessions == {<<MkDef, GDef, GCall>>, <<MkDef, GDef, Form("g", <<Number(1), Number(2)>>)>>}

\* ((fn* (p1 ... pk & r) [p1 ... pk r]) 1 ... n)
Param(i) == Symbol("p" \o ToString(i))
VariadicFn(k) ==
    Form("fn*", <<List([i \in 1..k |-> Param(i)] \o <<Symbol("&"), Symbol("r")>>),
                  Vector([i \in 1..k |-> Param(i)] \o <<Symbol("r")>>)>>)
VariadicCall(k, n) == List(<<VariadicFn(k)>> \o [i \in 1..n |-> Number(i)])
VariadicSessions == {<<VariadicCall(k, k + r)>> : k \in 0..MaxFixed, r \in 0..MaxRest}

\* expressions whose values cover the variants
AtomOf(e) == Form("atom", <<e>>)
Thunk == Form("fn*", <<List(<<>>), Number(1)>>)
ValueExprs ==
    {Nil, TrueV, FalseV, Number(0), Number(1), String(<<>>), String(<<"a">>), Keyword("a"),
     List(<<>>), Vector(<<>>), HashMap(<<>>), Symbol("+"), Symbol("-"), Thunk,
     AtomOf(Nil), AtomOf(Number(1)), AtomOf(Number(2)),
     Form("list", <<Number(1), Number(2), Number(3)>>),
     Vector(<<Number(1), Number(2), Number(3)>>),
     Form("list", <<Number(1), Number(2)>>),
     Form("list", <<Vector(<<Number(1)>>)>>),
     Vector(<<Form("list", <<Number(1)>>)>>),
     Vector(<<Vector(<<Number(2)>>)>>),
     AtomOf(Form("list", <<Number(1)>>)), AtomOf(Vector(<<Number(1)>>)),
     HashMap(<< <<Keyword("a"), Number(1)>> >>),
     HashMap(<< <<String(<<"a">>), Number(1)>> >>),
     HashMap(<< <<Keyword("a"), Form("list", <<Number(1)>>)>> >>),
     HashMap(<< <<Keyword("a"), Vector(<<Number(1)>>)>> >>),
     HashMap(<< <<Keyword("a"), Number(1)>>, <<Keyword("b"), Number(2)>> >>),
     HashMap(<< <<Keyword("b"), Number(2)>>, <<Keyword("a"), Number(1)>> >>)}

\* (if C 1 2) and (if C 1)
IfSessions ==
    {<<Form("if", <<c, Number(1), Number(2)>>)>> : c \in ValueExprs}
      \cup {<<Form("if", <<c, Number(1)>>)>> : c \in ValueExprs}

\* (= X Y), and = on one object
EqSessions ==
    {<<Form("=", <<a, b>>)>> : a \in ValueExprs, b \in ValueExprs}
      \cup {<<Form("let*", <<List(<<Symbol("a"), c>>), Form("=", <<Symbol("a"), Symbol("a")>>)>>)>> :
              c \in {AtomOf(Number(1)), Thunk}}
      \cup {<<Form("=", <<Symbol("not"), Symbol("not")>>)>>,
            <<Form("=", <<Number(1)>>)>>}

\* a value evaluated: typed at the prompt, or handed to eval
SelfEvalSessions ==
    {<<c>> : c \in {Nil, TrueV, FalseV, Number(5), String(<<"s">>), Keyword("k"), List(<<>>)}}
      \cup {<<Form("eval", <<c>>)>> :
              c \in {Symbol("+"), Thunk, AtomOf(Number(1)), Form("list", <<>>), Number(5)}}
      \cup {<<Form("def!", <<Symbol("a"), AtomOf(Number(1))>>), Form("eval", <<Symbol("a")>>)>>}

\* special forms of the wrong shape, each followed by one more line
LetNotSeq == Form("let*", <<Number(5), Number(1)>>)
LetOdd == Form("let*", <<List(<<Symbol("a")>>), Number(1)>>)
LetOdd3 == Form("let*", <<Vector(<<Symbol("a"), Number(1), Symbol("b")>>), Symbol("a")>>)
LetShapeErrors == {LetNotSeq, LetOdd, LetOdd3}
ShapeErrors ==
    LetShapeErrors \cup
    {Form("let*", <<List(<<Number(1), Number(2)>>), Number(1)>>),
     Form("let*", <<List(<<Symbol("a"), Number(2)>>)>>),
     Form("do", <<>>), Form("if", <<>>), Form("def!", <<Symbol("a")>>),
     Form("fn*", <<Number(1), Number(1)>>), Form("fn*", <<List(<<Number(1)>>), Number(1)>>),
     Form("fn*", <<List(<<>>)>>),
     List(<<Number(1), Number(2)>>), Symbol("undefined"),
     Form("+", <<Number(1)>>), Form("/", <<Number(1), Number(0)>>),
     Form("car", <<List(<<>>)>>), Form("cdr", <<List(<<>>)>>), Form("count", <<Number(1)>>),
     Form("not", <<>>)}
ErrorSessions ==
    {<<e, Form("def!", <<Symbol("z"), Number(1)>>)>> : e \in ShapeErrors}
      \cup {<<Form("def!", <<Symbol("z"), Number(1)>>), e, Symbol("z")>> : e \in LetShapeErrors}

\* the scenarios of everyday use
OtherSessions ==
    {<<Form("+", <<Number(1), Form("*", <<Number(2), Number(3)>>)>>)>>,
     <<Form("let*", <<List(<<Symbol("a"), Number(10), Symbol("b"),
                            Form("+", <<Symbol("a"), Number(5)>>)>>),
                     Form("*", <<Symbol("a"), Symbol("b")>>)>>)>>,
     <<Form("def!", <<Symbol("a"), AtomOf(Number(0))>>),
       Form("swap!", <<Symbol("a"), Form("fn*", <<List(<<Symbol("x")>>),
                                                 Form("+", <<Symbol("x"), Number(1)>>)>>)>>),
       Form("deref", <<Symbol("a")>>)>>,
     <<Form("do", <<Form("prn", <<String(<<"h", "i">>)>>), Number(42)>>)>>,
     <<Form("count", <<Vector(<<Number(1), Number(2), Number(3)>>)>>),
       Form("empty?", <<List(<<>>)>>), Form("empty?", <<Vector(<<>>)>>)>>,
     <<ReadError(<<"Error! unexpected EOF">>), Number(1)>>,
     <<Form("def!", <<Number(1), Number(2)>>), Form("not", <<Nil>>)>>,
     <<Form("swap!", <<AtomOf(Number(1)), Symbol("+"), Number(2)>>),
       Form("println", <<String(<<"a">>), Keyword("b")>>)>>}

\* (op a b) on the numbers of small absolute value, and the calls that fail
ArithOps == {"+", "-", "*", "/", "%"}
Operands == (-MaxOperand)..MaxOperand
ArithSessions ==
    {<<Form(op, <<Number(a), Number(b)>>)>> : op \in ArithOps, a \in Operands, b \in Operands}
      \cup {<<Form(op, args), Form("+", <<Number(1), Number(1)>>)>> :
              op \in ArithOps,
              args \in {<<>>, <<Number(1)>>, <<String(<<"a">>), Number(1)>>,
                        <<Number(1), Nil>>, <<String(<<"a">>)>>}}

\* (def! a (atom 5)), (swap! a F X ...), (deref a), (reset! a 9), (deref a)
DefAtom == Form("def!", <<Symbol("a"), AtomOf(Number(5))>>)
Fn(params, body) == Form("fn*", <<List([i \in 1..Len(params) |-> Symbol(params[i])]), body>>)
SwapCalls ==
    {<<Symbol("-"), Number(2)>>,
     <<Symbol("list"), Number(1), Number(2)>>,
     <<Symbol("list")>>,
     <<Fn(<<"x">>, Form("+", <<Symbol("x"), Number(1)>>))>>,
     <<Fn(<<"x", "y">>, Form("-", <<Symbol("x"), Symbol("y")>>)), Number(2)>>,
     <<Fn(<<"x", "&", "r">>, Symbol("r")), Number(1), Number(2)>>,
     <<Fn(<<"x", "&", "r">>, Symbol("r"))>>,
     <<Fn(<<"x">>, Form("reset!", <<Symbol("a"), Number(7)>>))>>,
     \* closures of the wrong arity
     <<Fn(<<>>, Number(1))>>,
     <<Fn(<<"x", "y">>, Symbol("x"))>>,
     <<Fn(<<"x">>, Symbol("x")), Number(2), Number(3)>>,
     <<Fn(<<"x", "y", "&", "r">>, Symbol("r"))>>,
     \* no function
     <<Number(1)>>}
SwapSessions ==
    {<<DefAtom, Form("swap!", <<Symbol("a")>> \o c), Form("deref", <<Symbol("a")>>),
       Form("reset!", <<Symbol("a"), Number(9)>>), Form("deref", <<Symbol("a")>>)>> :
        c \in SwapCalls}

\* eval called from inside a let* and a closure body
ReadString(text) == Form("read-string", <<String(Explode(text))>>)
DefX == Form("def!", <<Symbol("x"), Number(1)>>)
EvalSessions ==
    {<<DefX, Form("let*", <<List(<<Symbol("x"), Number(5)>>),
                           Form("eval", <<ReadString(t)>>)>>), Symbol("x"), Symbol("z")>> :
        t \in {"x", "y", "(def! z x)", "(def! x 2)", "(let* (x 3) x)"}}
      \cup {<<DefX, Form("let*", <<List(<<Symbol("y"), Number(5)>>),
                                  Form("eval", <<ReadString("y")>>)>>), Symbol("x")>>,
             <<DefX, List(<<Fn(<<"x">>, Form("eval", <<ReadString("(def! z x)")>>)), Number(5)>>),
               Symbol("z")>>,
             <<DefX, List(<<Fn(<<"x">>, Form("eval", <<ReadString("x")>>)), Number(5)>>)>>,
             <<Form("let*", <<List(<<Symbol("x"), Number(5)>>),
                              Form("eval", <<Form("list", <<Symbol("+"), Symbol("x"), Number(2)>>)>>)>>)>>}

\* texts for read-string: one expression each
RoundTripTexts ==
    {"1", "000", "-3", "x", "-", "-0", ":k", ":", "nil", "true", "false", "()", "[]", "{}",
     "(1 (2 [3 :a]) \"s\")", "'x", "(a ~b ~@c)", "@a", "^m v", "{:a 1 \"k\" [2]}",
     "{:a 1 :a 2}", "(truex 12ab)", " 1 ", "1 ;c", "\"\"", "\"a b\"", "\"a\\nb\\\\c\\\"d\"",
     "\"\\\\n\"", "\"\\x\"", "\"a\nb\"", "(\"\\\\\" \"\\\"\")"}
\* ... a complete expression and then more tokens
TrailingTexts == {"1 2", "(+ 1 2) 3", "x y", "\"a\" \"b\"", "1 )", "[1] [2]", "nil nil nil"}
\* ... no complete expression
BrokenTexts == {"", "; c", "(1 2", "\"abc", "\"a\\", "{1 2}", ")"}
ReadSessions ==
    {<<ReadString(t)>> : t \in RoundTripTexts \cup TrailingTexts \cup BrokenTexts}
      \cup {<<Form("read-string", <<Form("pr-str", <<ReadString(t)>>)>>)>> : t \in RoundTripTexts}
      \cup {<<Form("read-string", <<Number(1)>>)>>, <<Form("read-string", <<>>)>>}

\* the same expression evaluated twice, the bindings of x and a shown
\* before, between and after
Snapshot == Form("list", <<Symbol("x"), Form("deref", <<Symbol("a")>>)>>)
TwiceExprs ==
    {Form("+", <<Symbol("x"), Number(1)>>),
     Form("deref", <<Symbol("a")>>),
     Form("swap!", <<Symbol("a"), Symbol("+"), Number(1)>>),
     Form("def!", <<Symbol("x"), Symbol("x")>>),
     Form("def!", <<Symbol("x"), Form("+", <<Symbol("x"), Number(1)>>)>>),
     Form("let*", <<List(<<Symbol("x"), Number(2)>>), Form("+", <<Symbol("x"), Number(1)>>)>>),
     Symbol("y"),
     Form("atom", <<Number(1)>>),
     Form("pr-str", <<Form("atom", <<Symbol("x")>>)>>),
     List(<<Fn(<<"n">>, Form("+", <<Symbol("n"), Symbol("x")>>)), Number(2)>>),
     Form("do", <<Form("reset!", <<Symbol("a"), Number(5)>>), Form("deref", <<Symbol("a")>>)>>),
     Form("eval", <<ReadString("(+ x 1)")>>),
     Form("str", <<Symbol("+")>>),
     Form("pr-str", <<Fn(<<>>, Number(1))>>)}
TwiceSessions == {<<DefX, DefAtom, Snapshot, e, Snapshot, e, Snapshot>> : e \in TwiceExprs}

\* let* forms that shadow the top-level x, evaluated where x is 1
Let(bindings, body) == Form("let*", <<List(bindings), body>>)
LetForms ==
    {Let(<<Symbol("x"), Number(5), Symbol("y"), Symbol("x")>>, Form("+", <<Symbol("x"), Symbol("y")>>)),
     Let(<<Symbol("x"), Number(5)>>,
         Let(<<Symbol("x"), Number(6), Symbol("z"), Symbol("x")>>, Symbol("z"))),
     Let(<<Symbol("x"), Number(5), Symbol("y"), Symbol("nope")>>, Symbol("x")),
     Let(<<Symbol("x"), Number(5), Number(7), Number(8)>>, Symbol("x")),
     Let(<<Symbol("x"), Number(5)>>, Form("def!", <<Symbol("w"), Symbol("x")>>)),
     Let(<<Symbol("x"), Form("def!", <<Symbol("v"), Number(3)>>)>>, Symbol("v")),
     Let(<<Symbol("x"), Number(5)>>, List(<<Fn(<<>>, Symbol("x"))>>)),
     Let(<<Symbol("x"), Number(5)>>, Form("car", <<Symbol("x")>>)),
     Let(<<>>, Symbol("x")),
     Form("let*", <<Vector(<<Symbol("x"), Form("+", <<Symbol("x"), Number(1)>>)>>), Symbol("x")>>)}
LetSessions == {<<DefX, f, Symbol("x")>> : f \in LetForms}

\* a let*, a closure called inside it, and a swap! with a closure made inside
\* that call: each makes an Environment under the one before
TreeSessions ==
    {<<DefAtom,
       Let(<<Symbol("k"), Number(1)>>,
           List(<<Fn(<<"n">>,
                     Form("swap!", <<Symbol("a"),
                                     Fn(<<"v">>, Form("+", <<Form("+", <<Symbol("v"), Symbol("n")>>),
                                                             Symbol("k")>>))>>)),
                  Number(2)>>)),
       Form("deref", <<Symbol("a")>>)>>}

\* hash-map literals: evaluated, read from text, and texts whose literal has
\* a key that is no String or Keyword, or a key without a value
MapLiteral ==
    HashMap(<<<<Keyword("a"), Form("+", <<Symbol("x"), Number(2)>>)>>,
              <<String(<<"b">>), Symbol("x")>>,
              <<Keyword("c"), HashMap(<<<<Keyword("d"), Vector(<<Symbol("x")>>)>>>>)>>>>)
BadMapTexts ==
    {"{1 2}", "{x 1}", "{(1) 2}", "{nil 1}", "{[:a] 1}", "{:a}", "{:a 1 :b}", "{\"k\"}",
     "(1 {:a {2 3}})", "{:a 1 \"k\"}"}
GoodMapTexts == {"{:a (+ 1 2) \"k\" [x]}", "{\"a\" {:b {}}}", "{:a 1 :a x}"}
MapSessions ==
    {<<DefX, MapLiteral>>, <<DefX, HashMap(<<<<Keyword("a"), Symbol("nope")>>>>)>>}
      \cup {<<ReadString(t)>> : t \in BadMapTexts}
      \cup {<<DefX, Form("eval", <<ReadString(t)>>)>> : t \in GoodMapTexts}

\* (def! fact (fn* (n) (if (<= n 1) 1 (* n (fact (- n 1)))))) and (fact n)
FactDef ==
    Form("def!", <<Symbol("fact"),
        Fn(<<"n">>, Form("if", <<Form("<=", <<Symbol("n"), Number(1)>>), Number(1),
                                 Form("*", <<Symbol("n"),
                                             Form("fact", <<Form("-", <<Symbol("n"), Number(1)>>)>>)>>)>>))>>)
FactSessions == {<<FactDef, Form("fact", <<Number(n)>>)>> : n \in 0..MaxFact}

\* a name of the captured environment bound again after the closure was made
DefK(n) == Form("def!", <<Symbol("k"), Number(n)>>)
RebindSessions ==
    {<<DefK(1), Form("def!", <<Symbol("f"), Fn(<<>>, Symbol("k"))>>), List(<<Symbol("f")>>),
       DefK(2), List(<<Symbol("f")>>), Let(<<Symbol("k"), Number(9)>>, List(<<Symbol("f")>>))>>,
     <<Form("def!", <<Symbol("h"), Let(<<Symbol("k"), Number(5)>>, Fn(<<>>, Symbol("k")))>>),
       DefK(7), List(<<Symbol("h")>>)>>,
     <<Form("def!", <<Symbol("f"), Fn(<<>>, Symbol("k"))>>), List(<<Symbol("f")>>), DefK(3),
       List(<<Symbol("f")>>)>>}

\* calls whose head and arguments print when they are evaluated
Prn(n) == Form("prn", <<Number(n)>>)
OrderCalls ==
    {Form("list", <<Prn(1), Prn(2), Prn(3)>>),
     List(<<Form("do", <<Prn(0), Symbol("list")>>), Prn(1), Prn(2)>>),
     List(<<Form("do", <<Prn(0), Fn(<<"a", "b">>, Prn(3))>>), Prn(1), Prn(2)>>),
     Form("list", <<Prn(1), Symbol("nope"), Prn(3)>>),
     List(<<Number(1), Prn(2)>>),
     List(<<Form("do", <<Prn(0), Nil>>), Prn(1), Prn(2)>>),
     List(<<Fn(<<>>, Number(1)), Prn(2)>>),
     List(<<Fn(<<"a", "b">>, Symbol("a")), Prn(1)>>),
     Form("nope", <<Prn(1)>>)}
OrderSessions == {<<c>> : c \in OrderCalls}

\* do forms whose expressions print, bind or fail
DoForms ==
    {Form("do", <<>>),
     Form("do", <<Prn(1)>>),
     Form("do", <<Prn(1), Prn(2), Number(3)>>),
     Form("do", <<Form("do", <<Prn(1), Prn(2)>>), Prn(3)>>),
     Form("do", <<Prn(1), Symbol("nope"), Prn(3)>>),
     Form("do", <<Prn(1), Form("do", <<>>)>>),
     List(<<Fn(<<"x">>, Form("do", <<Prn(1), Symbol("x")>>)), Number(4)>>)}
\* (let* (a 1) (do (def! a 2) (prn 1) a))
DoInLet ==
    Let(<<Symbol("a"), Number(1)>>,
        Form("do", <<Form("def!", <<Symbol("a"), Number(2)>>), Prn(1), Symbol("a")>>))
DoSessions == {<<c>> : c \in DoForms} \cup {<<DoInLet>>}

\* (if (do (prn 0) C) (prn 1) (prn 2)) and (if (do (prn 0) C) (prn 1))
Conditions ==
    {Nil, FalseV, TrueV, Number(0), Number(1), String(<<>>), List(<<>>), Vector(<<>>),
     Keyword("k"), HashMap(<<>>)}
IfElse(c) == Form("if", <<Form("do", <<Prn(0), c>>), Prn(1), Prn(2)>>)
IfThen(c) == Form("if", <<Form("do", <<Prn(0), c>>), Prn(1)>>)
BranchSessions ==
    {<<IfElse(c)>> : c \in Conditions} \cup {<<IfThen(c)>> : c \in Conditions}
      \cup {<<Form("if", <<Symbol("nope"), Prn(1), Prn(2)>>)>>,
            <<Form("if", <<Form("if", <<Nil, Prn(1)>>), Prn(2), Form("if", <<TrueV, Prn(3), Prn(4)>>)>>)>>}

\* (let* (a 10 b (+ a 5)) (* a b)), and, after (def! x 1),
\* (let* (y x x 5 z x) (+ (* y 10) z)) and (let* (a x b (+ a 1) c (+ a b)) (prn c))
LetAB ==
    Let(<<Symbol("a"), Number(10), Symbol("b"), Form("+", <<Symbol("a"), Number(5)>>)>>,
        Form("*", <<Symbol("a"), Symbol("b")>>))
LetYXZ ==
    Let(<<Symbol("y"), Symbol("x"), Symbol("x"), Number(5), Symbol("z"), Symbol("x")>>,
        Form("+", <<Form("*", <<Symbol("y"), Number(10)>>), Symbol("z")>>))
LetABC ==
    Let(<<Symbol("a"), Symbol("x"), Symbol("b"), Form("+", <<Symbol("a"), Number(1)>>),
          Symbol("c"), Form("+", <<Symbol("a"), Symbol("b")>>)>>,
        Form("prn", <<Symbol("c")>>))
SequentialSessions == {<<LetAB>>, <<DefX, LetYXZ>>, <<DefX, LetABC>>}

\* after (def! x 1): a def! of x in a let* body, in a closure body, under two
\* let*s, and one whose value raises; then x at top level
DefInLet == Let(<<Symbol("y"), Number(2)>>, Form("def!", <<Symbol("x"), Number(9)>>))
DefInClosure ==
    List(<<Fn(<<"n">>, Form("do", <<Form("def!", <<Symbol("x"), Symbol("n")>>), Symbol("x")>>)),
           Number(7)>>)
DefUnderTwo ==
    Let(<<Symbol("x"), Number(2)>>,
        Form("+", <<Let(<<Symbol("z"), Number(3)>>,
                        Form("do", <<Form("def!", <<Symbol("x"), Number(4)>>), Symbol("x")>>)),
                    Symbol("x")>>))
DefRaises == Form("def!", <<Symbol("x"), Symbol("nope")>>)
DefRaisesInLet ==
    Let(<<Symbol("y"), Number(2)>>, Form("def!", <<Symbol("x"), Form("car", <<Symbol("y")>>)>>))
DefAgain == Form("def!", <<Symbol("x"), Form("+", <<Symbol("x"), Number(1)>>)>>)
DefForms == {DefInLet, DefInClosure, DefUnderTwo, DefRaises, DefRaisesInLet, DefAgain}
DefSessions == {<<DefX, f, Symbol("x")>> : f \in DefForms}

\* (def! a (atom 5)), (def! f F), then F applied to 5 and the extra
\* arguments in call position, (f 5 X ...), and through swap!, (swap! a f X ...)
AgreeFns ==
    {Fn(<<"x">>, Form("+", <<Symbol("x"), Number(1)>>)),
     Fn(<<"x", "y">>, Form("-", <<Symbol("x"), Symbol("y")>>)),
     Fn(<<"x", "&", "r">>, Form("count", <<Symbol("r")>>)),
     Fn(<<"&", "r">>, Form("count", <<Symbol("r")>>)),
     Fn(<<>>, Number(1)),
     Fn(<<"x">>, Symbol("nope"))}
AgreeExtras == {<<>>, <<Number(2)>>, <<Number(2), Number(3)>>}
AgreeSession(fn, extra) ==
    <<Form("def!", <<Symbol("a"), Form("atom", <<Number(5)>>)>>),
      Form("def!", <<Symbol("f"), fn>>),
      Form("f", <<Number(5)>> \o extra),
      Form("swap!", <<Symbol("a"), Symbol("f")>> \o extra)>>
AgreeSessions == {AgreeSession(fn, extra) : fn \in AgreeFns, extra \in AgreeExtras}

\* after (def! a (atom 1)): a value put into a, which is then printed
CycleValues ==
    {Symbol("a"), Form("list", <<Symbol("a")>>), Vector(<<Symbol("a")>>),
     Form("list", <<Number(1), Form("list", <<Number(2), Symbol("a")>>)>>),
     AtomOf(Symbol("a")), Form("list", <<Number(1), Number(2)>>), AtomOf(Number(2)),
     Form("list", <<AtomOf(Number(2)), AtomOf(Number(2))>>)}
CycleSessions ==
    {<<Form("def!", <<Symbol("a"), AtomOf(Number(1))>>),
       Form("do", <<Form("reset!", <<Symbol("a"), v>>), Number(0)>>),
       p>> :
        v \in CycleValues,
        p \in {Symbol("a"), Form("prn", <<Symbol("a")>>), Form("pr-str", <<Symbol("a")>>),
               Form("count", <<Form("list", <<Symbol("a")>>)>>)}}
      \cup {<<Form("def!", <<Symbol("a"), AtomOf(Number(1))>>),
              Form("swap!", <<Symbol("a"), Fn(<<"v">>, Form("list", <<Symbol("v"), Symbol("a")>>))>>)>>}

Sessions ==
    TcoSessions \cup ClosureSessions \cup VariadicSessions \cup IfSessions \cup EqSessions
      \cup SelfEvalSessions \cup ErrorSessions \cup OtherSessions \cup ArithSessions
      \cup SwapSessions \cup EvalSessions \cup ReadSessions
      \cup TwiceSessions \cup LetSessions \cup TreeSessions
      \cup MapSessions \cup FactSessions \cup RebindSessions
      \cup OrderSessions \cup DoSessions \cup BranchSessions
      \cup SequentialSessions \cup DefSessions \cup AgreeSessions
      \cup CycleSessions

\* one invocation of eval_ast: its ast and env, where it stands (pc), and its
\* locals: f the evaluated head (the key in def!), acc the values evaluated so
\* far, i the loop index, pend the atoms a swap! under way will store into
Frame(ast, env) ==
    [ast |-> ast, env |-> env, pc |-> "top", f |-> Nil, acc |-> <<>>, i |-> 0, pend |-> <<>>]

NoRet == [k |-> "none", v |-> Nil]
Val(val) == [k |-> "val", v |-> val]
Raised(ex) == [k |-> "exc", v |-> ex]

(***************************************************************************)
(* main(): default_env after get_namespace(), *ARGV*, the two rep calls    *)
(* that define not and load-file, and eval.                                *)
(***************************************************************************)
Namespace ==
    {"+", "-", "/", "*", "%", "prn", "list", "list?", "empty?", "count", "=", "<", "<=",
     ">", ">=", "pr-str", "str", "println", "car", "cdr", "read-string", "slurp", "atom",
     "atom?", "deref", "reset!", "swap!"}

\* (fn* (a) (if a false true))
NotDef ==
    FunctionDefinition(<<Symbol("a")>>, Form("if", <<Symbol("a"), FalseV, TrueV>>), 1, 1)
\* (fn* (f) (eval (read-string (str "(do " (slurp f) "\nnil)"))))
LoadFileDef ==
    FunctionDefinition(<<Symbol("f")>>,
        Form("eval", <<Form("read-string", <<Form("str",
            <<String(<<"(", "d", "o", " ">>), Form("slurp", <<Symbol("f")>>),
              String(<<"\n", "n", "i", "l", ")">>)>>)>>)>>), 1, 2)

default_env ==
    [name \in Namespace \cup {"*ARGV*", "not", "load-file", "eval"} |->
        CASE name = "*ARGV*" -> List(<<>>)
          [] name = "not" -> NotDef
          [] name = "load-file" -> LoadFileDef
          [] OTHER -> Function(name)]

Init ==
    /\ stdin \in Sessions
    /\ pos = 0
    /\ repl = "prompt"
    /\ stack = <<>>
    /\ ret = NoRet
    /\ envs = <<[data |-> default_env, outer |-> 0]>>
    /\ atoms = <<>>
    /\ nclosures = 2
    /\ stdout = <<>>

(***************************************************************************)
(* eval_ast (step6_file.py 118-250), one invocation per stack frame.       *)
(***************************************************************************)
Top == stack[Len(stack)]
Below == SubSeq(stack, 1, Len(stack) - 1)
Running == repl = "eval" /\ stack # <<>>
\* at the match statement of the while loop
AtTop == Running /\ ret.k = "none" /\ Top.pc = "top"
\* the eval_ast this invocation called has returned
Resuming(pc) == Running /\ ret.k = "val" /\ Top.pc = pc
IsForm(ast, name) ==
    ast.t = "list" /\ Len(ast.v) > 0 /\ ast.v[1].t = "sym" /\ ast.v[1].v = name
SpecialForms == {"def!", "let*", "do", "if", "fn*"}

\* `ast = ...; env = ...; continue`: the frames after the running invocation
\* fr goes round its loop with (ast, env)
Trampoline_recursive(below, fr, ast, env) ==
    Append(below, [fr EXCEPT !.pc = "prim", !.pend = <<>>]) \o <<Frame(ast, env)>>

Trampoline(below, fr, ast, env) == Append(below, Frame(ast, env))

\* the environment a closure's body runs under: a child of the captured one
\* (a slip: a child of the caller's)
ClosureOuter_caller(f, caller_env) == caller_env

ClosureOuter(f, caller_env) == f.v.env

Return(val) == stack' = Below /\ ret' = Val(val)
Raise(fr, cls, args) == stack' = Append(Below, fr) /\ ret' = Raised(Exc(cls, args))
\* the invocation, now fr, calls eval_ast(ast, env)
Call(fr, ast, env) == stack' = Append(Below, fr) \o <<Frame(ast, env)>> /\ ret' = NoRet
Continue(fr, ast, env) == stack' = Trampoline(Below, fr, ast, env) /\ ret' = NoRet
Goto(fr) == stack' = Append(Below, fr) /\ ret' = NoRet

\* line 121-122
eval_ast_symbol ==
    /\ AtTop /\ Top.ast.t = "sym"
    /\ LET r == Environment_find(envs, Top.env, Top.ast.v)
       IN IF r.found THEN Return(r.v)
          ELSE Raise(Top, "SymbolNotFound", <<Top.ast, EnvRef(Top.env)>>)
    /\ UNCHANGED <<stdin, pos, repl, envs, atoms, nclosures, stdout>>

\* line 123-124, 126-127, 249-250: the cases that return ast
ReturnsItself(ast) ==
    \/ ast.t \in {"kw", "num", "true", "false", "nil", "str"}
    \/ ast.t = "list" /\ Len(ast.v) = 0
    \/ ast.t \in {"fn", "closure"}

eval_ast_self ==
    /\ AtTop /\ ReturnsItself(Top.ast)
    /\ Return(Top.ast)
    /\ UNCHANGED <<stdin, pos, repl, envs, atoms, nclosures, stdout>>

\* no case of the match is for Atom: the while loop goes round unchanged
eval_ast_atom ==
    /\ AtTop /\ Top.ast.t = "atom"
    /\ UNCHANGED vars

\* line 130-138
eval_ast_def ==
    /\ AtTop /\ IsForm(Top.ast, "def!")
    /\ IF Len(Top.ast.v) # 3
       THEN Raise(Top, "BadNumberOfArguments", <<Top.ast.v[1], Top.ast>>)
       ELSE LET key == IF Top.ast.v[2].t = "sym" THEN Top.ast.v[2]
                       ELSE Symbol(Concat(Repr(atoms, Top.ast.v[2], {})))
            IN Call([Top EXCEPT !.pc = "def", !.f = key], Top.ast.v[3], Top.env)
    /\ UNCHANGED <<stdin, pos, repl, envs, atoms, nclosures, stdout>>

\* a slip: def! binds in the top-level environment
resume_def_topLevel ==
    /\ Resuming("def")
    /\ envs' = Environment_set(envs, 1, Top.f.v, ret.v)
    /\ Return(ret.v)
    /\ UNCHANGED <<stdin, pos, repl, atoms, nclosures, stdout>>

resume_def ==
    /\ Resuming("def")
    /\ envs' = Environment_set(envs, Top.env, Top.f.v, ret.v)
    /\ Return(ret.v)
    /\ UNCHANGED <<stdin, pos, repl, atoms, nclosures, stdout>>

\* a slip: the binding expressions evaluated in the top-level environment
let_loop_parallel(fr, i) ==
    LET bindings == fr.ast.v[2].v
    IN IF i >= Len(bindings) THEN Continue(fr, fr.ast.v[3], fr.env)
       ELSE IF bindings[i + 1].t # "sym"
       THEN Raise(fr, "ExpectedSymbolInLetDefinition", <<bindings[i + 1], fr.ast>>)
       ELSE Call([fr EXCEPT !.pc = "let", !.i = i], bindings[i + 2], 1)

\* line 151-160: the loop over the bindings from index i (0-based), in env
let_loop(fr, i) ==
    LET bindings == fr.ast.v[2].v
    IN IF i >= Len(bindings) THEN Continue(fr, fr.ast.v[3], fr.env)
       ELSE IF bindings[i + 1].t # "sym"
       THEN Raise(fr, "ExpectedSymbolInLetDefinition", <<bindings[i + 1], fr.ast>>)
       ELSE Call([fr EXCEPT !.pc = "let", !.i = i], bindings[i + 2], fr.env)

\* line 139-150
eval_ast_let ==
    /\ AtTop /\ IsForm(Top.ast, "let*")
    /\ IF Len(Top.ast.v) # 3
       THEN Raise(Top, "BadNumberOfArguments", <<Top.ast.v[1], Top.ast>>) /\ envs' = envs
       ELSE IF ~IsSeq(Top.ast.v[2])
       THEN Raise(Top, "NotAssignationInLet", <<Top.ast>>) /\ envs' = envs
       ELSE IF Len(Top.ast.v[2].v) % 2 # 0
       THEN Raise(Top, "BadNumberOfAssignations", <<Top.ast.v[1], Top.ast>>) /\ envs' = envs
       ELSE /\ envs' = Append(envs, [data |-> EmptyDict, outer |-> Top.env])
            /\ let_loop([Top EXCEPT !.env = Len(envs) + 1], 0)
    /\ UNCHANGED <<stdin, pos, repl, atoms, nclosures, stdout>>

\* a slip: the binding written to the environment the let* was evaluated in
resume_let_inOuter ==
    /\ Resuming("let")
    /\ envs' = Environment_set(envs, envs[Top.env].outer, Top.ast.v[2].v[Top.i + 1].v, ret.v)
    /\ let_loop(Top, Top.i + 2)
    /\ UNCHANGED <<stdin, pos, repl, atoms, nclosures, stdout>>

resume_let ==
    /\ Resuming("let")
    /\ envs' = Environment_set(envs, Top.env, Top.ast.v[2].v[Top.i + 1].v, ret.v)
    /\ let_loop(Top, Top.i + 2)
    /\ UNCHANGED <<stdin, pos, repl, atoms, nclosures, stdout>>

\* a slip: the loop runs over all of remain, and the last one is evaluated
\* again by the trampoline
do_loop_lastTwice(fr, i) ==
    LET remain == Tail(fr.ast.v)
    IN IF i = Len(remain) + 1 THEN Continue(fr, remain[Len(remain)], fr.env)
       ELSE Call([fr EXCEPT !.pc = "do", !.i = i], remain[i], fr.env)

\* line 165-168: the loop over remain from index i (1-based)
do_loop(fr, i) ==
    LET remain == Tail(fr.ast.v)
    IN IF i = Len(remain) THEN Continue(fr, remain[i], fr.env)
       ELSE Call([fr EXCEPT !.pc = "do", !.i = i], remain[i], fr.env)

\* line 161-164
eval_ast_do ==
    /\ AtTop /\ IsForm(Top.ast, "do")
    /\ IF Len(Top.ast.v) = 1 THEN Raise(Top, "EmptyDoBlock", <<Top.ast>>)
       ELSE do_loop(Top, 1)
    /\ UNCHANGED <<stdin, pos, repl, envs, atoms, nclosures, stdout>>

resume_do ==
    /\ Resuming("do")
    /\ do_loop(Top, Top.i + 1)
    /\ UNCHANGED <<stdin, pos, repl, envs, atoms, nclosures, stdout>>

\* line 169-184
eval_ast_if ==
    /\ AtTop /\ IsForm(Top.ast, "if")
    /\ IF Len(Top.ast.v) \in {3, 4}
       THEN Call([Top EXCEPT !.pc = "if"], Top.ast.v[2], Top.env)
       ELSE Raise(Top, "BadNumberOfArguments", <<Top.ast.v[1], Top.ast>>)
    /\ UNCHANGED <<stdin, pos, repl, envs, atoms, nclosures, stdout>>

\* a slip: (if C T) goes on with T whatever the condition is
resume_if_thenAlways ==
    /\ Resuming("if")
    /\ IF Truthy(ret.v) \/ Len(Top.ast.v) = 3 THEN Continue(Top, Top.ast.v[3], Top.env)
       ELSE Continue(Top, Top.ast.v[4], Top.env)
    /\ UNCHANGED <<stdin, pos, repl, envs, atoms, nclosures, stdout>>

resume_if ==
    /\ Resuming("if")
    /\ IF Truthy(ret.v) THEN Continue(Top, Top.ast.v[3], Top.env)
       ELSE IF Len(Top.ast.v) = 4 THEN Continue(Top, Top.ast.v[4], Top.env)
       ELSE Return(Nil)
    /\ UNCHANGED <<stdin, pos, repl, envs, atoms, nclosures, stdout>>

\* line 186-209
eval_ast_fn ==
    /\ AtTop /\ IsForm(Top.ast, "fn*")
    /\ IF Len(Top.ast.v) # 3
       THEN Raise(Top, "BadNumberOfArguments", <<Top.ast.v[1], Top.ast>>)
              /\ nclosures' = nclosures
       ELSE IF ~IsSeq(Top.ast.v[2])
       THEN Raise(Top, "ExpectedListOfBindings", <<Top.ast.v[2]>>) /\ nclosures' = nclosures
       ELSE LET bindss == Top.ast.v[2].v
                bad == {j \in 1..Len(bindss) : bindss[j].t # "sym"}
            IN IF bad # {}
               THEN LET j == CHOOSE j \in bad : \A m \in bad : j <= m
                    IN Raise(Top, "NonSymbolInBinding", <<bindss[j], Top.ast>>)
                         /\ nclosures' = nclosures
               ELSE /\ Return(FunctionDefinition(bindss, Top.ast.v[3], Top.env, nclosures + 1))
                    /\ nclosures' = nclosures + 1
    /\ UNCHANGED <<stdin, pos, repl, envs, atoms, stdout>>

\* line 211-212: a non-empty list whose head is no special form
eval_ast_apply ==
    /\ AtTop /\ Top.ast.t = "list" /\ Len(Top.ast.v) > 0
    /\ ~(Top.ast.v[1].t = "sym" /\ Top.ast.v[1].v \in SpecialForms)
    /\ Call([Top EXCEPT !.pc = "head"], Top.ast.v[1], Top.env)
    /\ UNCHANGED <<stdin, pos, repl, envs, atoms, nclosures, stdout>>

\* line 215-217, 222-224: the comprehension over ast.value[1:]
args_loop(fr) ==
    IF Len(fr.acc) < Len(fr.ast.v) - 1
    THEN Call([fr EXCEPT !.pc = "args"], fr.ast.v[Len(fr.acc) + 2], fr.env)
    ELSE Goto([fr EXCEPT !.pc = "apply"])

\* line 213-214, 219-221, 231-234
resume_head ==
    /\ Resuming("head")
    /\ LET f == ret.v
           fr == [Top EXCEPT !.f = f]
       IN IF f.t = "fn" THEN args_loop(fr)
          ELSE IF f.t = "closure"
          THEN IF Len(f.v.params) # Len(Top.ast.v) - 1
               THEN Raise(fr, "BadNumberOfArguments", <<f, Top.ast>>)
               ELSE args_loop(fr)
          ELSE Raise(fr, "NonFunctionFormAtFirstListITem", <<Top.ast, f, Tail(Top.ast.v)>>)
    /\ UNCHANGED <<stdin, pos, repl, envs, atoms, nclosures, stdout>>

resume_args ==
    /\ Resuming("args")
    /\ args_loop([Top EXCEPT !.acc = Append(@, ret.v)])
    /\ UNCHANGED <<stdin, pos, repl, envs, atoms, nclosures, stdout>>

\* line 218: return g(arguments)
apply_Function ==
    /\ Running /\ ret.k = "none" /\ Top.pc = "apply" /\ Top.f.t = "fn"
    /\ LET r == ApplyPrim(Top.f.v, Top.acc, atoms)
       IN /\ atoms' = r.atoms
          /\ stdout' = stdout \o r.out
          /\ IF r.k = "val" THEN Return(r.v) /\ envs' = envs
             ELSE IF r.k = "exc" THEN stack' = stack /\ ret' = Raised(r.v) /\ envs' = envs
             ELSE IF r.call.fresh
             THEN /\ envs' = Append(envs, [data |-> r.call.data, outer |-> r.call.env])
                  /\ Call([Top EXCEPT !.pc = "prim", !.pend = r.pend], r.call.ast,
                          Len(envs) + 1)
             ELSE /\ envs' = envs
                  /\ Call([Top EXCEPT !.pc = "prim", !.pend = r.pend], r.call.ast, r.call.env)
    /\ UNCHANGED <<stdin, pos, repl, nclosures>>

\* mal_eval's eval_ast, or a closure called by swap!, has returned: every
\* swap! waiting for it stores the value (core.py 255-259)
RECURSIVE StoreAll(_, _, _)
StoreAll(h, pend, val) ==
    IF pend = <<>> THEN h ELSE StoreAll([h EXCEPT ![Head(pend)] = val], Tail(pend), val)

resume_prim ==
    /\ Resuming("prim")
    /\ atoms' = StoreAll(atoms, Top.pend, ret.v)
    /\ Return(ret.v)
    /\ UNCHANGED <<stdin, pos, repl, envs, nclosures, stdout>>

\* line 225-229: bind the parameters and go round the loop with the body
apply_FunctionDefinition ==
    /\ Running /\ ret.k = "none" /\ Top.pc = "apply" /\ Top.f.t = "closure"
    /\ LET b == Environment_init(Top.f.v.params, Top.acc)
       IN IF ~b.ok THEN Raise(Top, "IndexError", <<>>) /\ envs' = envs
          ELSE /\ envs' = Append(envs, [data |-> b.data, outer |-> ClosureOuter(Top.f, Top.env)])
               /\ Continue(Top, Top.f.v.body, Len(envs) + 1)
    /\ UNCHANGED <<stdin, pos, repl, atoms, nclosures, stdout>>

\* line 236-240
vector_loop(fr) ==
    IF Len(fr.acc) < Len(fr.ast.v)
    THEN Call([fr EXCEPT !.pc = "vector"], fr.ast.v[Len(fr.acc) + 1], fr.env)
    ELSE Return(Vector(fr.acc))

eval_ast_vector ==
    /\ AtTop /\ Top.ast.t = "vec"
    /\ IF Len(Top.ast.v) > 0 THEN vector_loop(Top) ELSE Return(Top.ast)
    /\ UNCHANGED <<stdin, pos, repl, envs, atoms, nclosures, stdout>>

resume_vector ==
    /\ Resuming("vector")
    /\ vector_loop([Top EXCEPT !.acc = Append(@, ret.v)])
    /\ UNCHANGED <<stdin, pos, repl, envs, atoms, nclosures, stdout>>

\* line 242-248: dict((k, eval_ast(v, env)) for k, v in value.items())
\* a slip: the evaluated values put in the place of the keys too
hash_map_loop_valuesAsKeys(fr) ==
    IF Len(fr.acc) < Len(fr.ast.v)
    THEN Call([fr EXCEPT !.pc = "hash_map"], fr.ast.v[Len(fr.acc) + 1][2], fr.env)
    ELSE Return(HashMap([j \in 1..Len(fr.acc) |-> <<fr.acc[j], fr.acc[j]>>]))

hash_map_loop(fr) ==
    IF Len(fr.acc) < Len(fr.ast.v)
    THEN Call([fr EXCEPT !.pc = "hash_map"], fr.ast.v[Len(fr.acc) + 1][2], fr.env)
    ELSE Return(HashMap([j \in 1..Len(fr.acc) |-> <<fr.ast.v[j][1], fr.acc[j]>>]))

eval_ast_hash_map ==
    /\ AtTop /\ Top.ast.t = "map"
    /\ IF Len(Top.ast.v) > 0 THEN hash_map_loop(Top) ELSE Return(Top.ast)
    /\ UNCHANGED <<stdin, pos, repl, envs, atoms, nclosures, stdout>>

resume_hash_map ==
    /\ Resuming("hash_map")
    /\ hash_map_loop([Top EXCEPT !.acc = Append(@, ret.v)])
    /\ UNCHANGED <<stdin, pos, repl, envs, atoms, nclosures, stdout>>

\* an exception leaves one invocation for its caller (no eval_ast catches)
unwind ==
    /\ Running /\ ret.k = "exc"
    /\ stack' = Below
    /\ UNCHANGED <<stdin, pos, repl, ret, envs, atoms, nclosures, stdout>>

(***************************************************************************)
(* main() and rep (step6_file.py 261-300).                                 *)
(***************************************************************************)
\* line 293, 299, 262-266: a line is read; a reader error is printed
input_line ==
    /\ repl = "prompt" /\ pos < Len(stdin)
    /\ pos' = pos + 1
    /\ LET r == stdin[pos + 1]
       IN IF r.t = "readerror"
          THEN /\ stdout' = Append(stdout, r.v)
               /\ UNCHANGED <<repl, stack, ret>>
          ELSE /\ repl' = "eval"
               /\ stack' = <<Frame(r, 1)>>
               /\ ret' = NoRet
               /\ stdout' = stdout \o ReadPrints(r)
    /\ UNCHANGED <<stdin, envs, atoms, nclosures>>

\* line 294-295
input_eof ==
    /\ repl = "prompt" /\ pos = Len(stdin)
    /\ repl' = "eof"
    /\ UNCHANGED <<stdin, pos, stack, ret, envs, atoms, nclosures, stdout>>

\* line 269-270, 300
rep_print ==
    /\ repl = "eval" /\ stack = <<>> /\ ret.k = "val"
    /\ LET p == Pretty(atoms, ret.v, TRUE, {})
       IN IF p.ok THEN repl' = "prompt" /\ stdout' = Append(stdout, p.s) /\ ret' = NoRet
          ELSE repl' = "crashed" /\ stdout' = stdout /\ ret' = Raised(Exc(p.s[1], <<>>))
    /\ UNCHANGED <<stdin, pos, stack, envs, atoms, nclosures>>

\* line 267-268, 300: except MalException; str(ex) may raise in its turn
rep_except ==
    /\ repl = "eval" /\ stack = <<>> /\ ret.k = "exc" /\ ret.v.v.cls \in MalException
    /\ LET m == ExcStr(atoms, ret.v)
       IN IF m.ok THEN repl' = "prompt" /\ stdout' = Append(stdout, m.s) /\ ret' = NoRet
          ELSE repl' = "crashed" /\ stdout' = stdout /\ ret' = Raised(Exc(m.s[1], <<>>))
    /\ UNCHANGED <<stdin, pos, stack, envs, atoms, nclosures>>

\* an exception that is no MalException leaves rep and main()
host_exception ==
    /\ repl = "eval" /\ stack = <<>> /\ ret.k = "exc" /\ ret.v.v.cls \notin MalException
    /\ repl' = "crashed"
    /\ UNCHANGED <<stdin, pos, stack, ret, envs, atoms, nclosures, stdout>>

Next ==
    \/ input_line
    \/ input_eof
    \/ rep_print
    \/ rep_except
    \/ host_exception
    \/ unwind
    \/ eval_ast_symbol
    \/ eval_ast_self
    \/ eval_ast_atom
    \/ eval_ast_def
    \/ resume_def
    \/ eval_ast_let
    \/ resume_let
    \/ eval_ast_do
    \/ resume_do
    \/ eval_ast_if
    \/ resume_if
    \/ eval_ast_fn
    \/ eval_ast_apply
    \/ resume_head
    \/ resume_args
    \/ apply_Function
    \/ resume_prim
    \/ apply_FunctionDefinition
    \/ eval_ast_vector
    \/ resume_vector
    \/ eval_ast_hash_map
    \/ resume_hash_map

Spec == Init /\ [][Next]_vars

(***************************************************************************)
(* The properties.                                                         *)
(***************************************************************************)
\* the running invocation is about to call the primitive `name`
AboutToApply(name) ==
    Running /\ ret.k = "none" /\ Top.pc = "apply" /\ Top.f = Function(name)
\* ... with two arguments
AboutToCompare == AboutToApply("=") /\ Len(Top.acc) = 2

\* C1: with f the tail-recursive (fn* (n) (if (<= n 0) :done (f (- n 1)))),
\* (f n) never has more than three eval_ast invocations active, whatever n,
\* never fails, and prints :done.
C1_TailRecursionBounded ==
    (pos = 2 /\ stdin[1] = TcoDef /\ stdin[2].t = "list" /\ stdin[2].v[1] = Symbol("f"))
      => /\ Len(stack) <= 3
         /\ ret.k # "exc"
         /\ repl # "crashed"
         /\ repl \in {"prompt", "eof"} => Len(stdout) = 2 /\ stdout[2] = <<":", "done">>

C1_Witness ==
    /\ stdin = <<TcoDef, TcoCall(MaxN)>>
    /\ repl = "eof"
    /\ stdout[2] = <<":", "done">>
    /\ Len(envs) = MaxN + 2

\* C2: applying a closure with parameters (a b) to two arguments makes one
\* new environment whose outer is the captured environment and whose table
\* binds a and b to the arguments, goes on with the body in it, and leaves
\* every existing environment as it was.
C2_ClosureBinding ==
    [][(/\ Running /\ ret.k = "none" /\ Top.pc = "apply" /\ Top.f.t = "closure"
        /\ Top.f.v.params = <<Symbol("a"), Symbol("b")>>)
       => /\ Len(envs') = Len(envs) + 1
          /\ envs'[Len(envs')].outer = Top.f.v.env
          /\ envs'[Len(envs')].data =
                [name \in {"a", "b"} |-> IF name = "a" THEN Top.acc[1] ELSE Top.acc[2]]
          /\ \A e \in 1..Len(envs) : envs'[e] = envs[e]
          /\ stack'[Len(stack')].ast = Top.f.v.body
          /\ stack'[Len(stack')].env = Len(envs')]_vars

\* the body of g runs under a child of the environment mk made (c = 7), not
\* of the let* environment it was called from (a = 100, c = 200)
C2_Witness ==
    /\ stdin = <<MkDef, GDef, GCall>>
    /\ AtTop
    /\ Top.ast = Form("list", <<Symbol("a"), Symbol("b"), Symbol("c")>>)
    /\ envs[Top.env].data = [name \in {"a", "b"} |-> IF name = "a" THEN Number(100) ELSE Number(2)]
    /\ envs[envs[Top.env].outer].data = [name \in {"c"} |-> Number(7)]
    /\ \E e \in 1..Len(envs) : "c" \in DOMAIN envs[e].data /\ envs[e].data["c"] = Number(200)

\* C3: ((fn* (p1 ... pk & r) [p1 ... pk r]) 1 ... n) with n >= k raises
\* nothing and evaluates to [1 ... k (k+1 ... n)].
VariadicResult(k, n) ==
    Vector([i \in 1..k |-> Number(i)] \o <<List([i \in 1..(n - k) |-> Number(k + i)])>>)
C3_VariadicApply ==
    \A k \in 0..MaxFixed, r \in 0..MaxRest :
        (stdin = <<VariadicCall(k, k + r)>> /\ pos = 1 /\ repl = "eval")
          => /\ ret.k # "exc"
             /\ (stack = <<>> /\ ret.k = "val") => ret.v = VariadicResult(k, k + r)

\* C4: eval_ast, given a Nil, True, False, Number, String, Keyword, empty
\* List, Function, Closure or Atom, returns it at once and changes no
\* environment and no atom.
SelfEvaluating(ast) ==
    \/ ast.t \in {"nil", "true", "false", "num", "str", "kw", "fn", "closure", "atom"}
    \/ ast.t = "list" /\ Len(ast.v) = 0
C4_SelfEvaluating ==
    (AtTop /\ SelfEvaluating(Top.ast))
      => ENABLED (/\ Next
                  /\ ret' = Val(Top.ast)
                  /\ stack' = Below
                  /\ envs' = envs
                  /\ atoms' = atoms)

\* C5: `if` takes the else-branch (or returns nil) exactly when the value of
\* the condition is Nil or False, and the then-branch for every other value.
C5_Truthiness ==
    [][Resuming("if")
       => IF ret.v.t \in {"nil", "false"}
          THEN IF Len(Top.ast.v) = 4
               THEN stack' = Append(Below, Frame(Top.ast.v[4], Top.env)) /\ ret' = NoRet
               ELSE stack' = Below /\ ret' = Val(Nil)
          ELSE stack' = Append(Below, Frame(Top.ast.v[3], Top.env)) /\ ret' = NoRet]_vars

\* (if 0 1 2) goes on with 1
C5_Witness ==
    /\ stdin = <<Form("if", <<Number(0), Number(1), Number(2)>>)>>
    /\ AtTop
    /\ Top.ast = Number(1)

\* C6: = on two sequences (List or Vector, in any combination) is true iff
\* they have the same length and = is true of each pair of elements; on
\* sequences nested in sequences down to numbers, strings and keywords, that
\* is: the same elements in the same order, List or Vector alike.
PlainSeq(x) == x.t \in {"num", "str", "kw", "nil", "true", "false"}
RECURSIVE NestedSeq(_)
NestedSeq(x) ==
    PlainSeq(x) \/ (IsSeq(x) /\ \A i \in 1..Len(x.v) : NestedSeq(x.v[i]))
RECURSIVE SameElements(_, _)
SameElements(x, y) ==
    IF IsSeq(x) /\ IsSeq(y)
    THEN Len(x.v) = Len(y.v) /\ \A i \in 1..Len(x.v) : SameElements(x.v[i], y.v[i])
    ELSE x = y
C6_SequenceEquality ==
    [][(AboutToCompare /\ IsSeq(Top.acc[1]) /\ IsSeq(Top.acc[2]))
       => LET a == Top.acc[1].v
              b == Top.acc[2].v
          IN /\ ret' = Val(bool_to_mal_bool(
                     /\ Len(a) = Len(b)
                     /\ \A i \in 1..Len(a) : ApplyPrim("=", <<a[i], b[i]>>, atoms).v = TrueV))
             /\ (NestedSeq(Top.acc[1]) /\ NestedSeq(Top.acc[2]))
                  => ret' = Val(bool_to_mal_bool(SameElements(Top.acc[1], Top.acc[2])))]_vars

\* (= (list 1 2 3) [1 2 3]) has returned true
C6_Witness ==
    /\ stdin = <<Form("=", <<Form("list", <<Number(1), Number(2), Number(3)>>),
                             Vector(<<Number(1), Number(2), Number(3)>>)>>)>>
    /\ repl = "eval" /\ stack = <<>>
    /\ ret = Val(TrueV)

\* C7: = on two Atoms is true only when they are the same cell.
C7_AtomIdentity ==
    [][(AboutToCompare /\ Top.acc[1].t = "atom" /\ Top.acc[2].t = "atom")
       => ret' = Val(bool_to_mal_bool(Top.acc[1].v = Top.acc[2].v))]_vars

\* C8: = on two HashMaps is true iff they have the same keys and = is true
\* of the two values of every key.
C8_HashMapEquality ==
    [][(AboutToCompare /\ Top.acc[1].t = "map" /\ Top.acc[2].t = "map")
       => LET a == Top.acc[1].v
              b == Top.acc[2].v
          IN ret' = Val(bool_to_mal_bool(
                 /\ MapKeys(a) = MapKeys(b)
                 /\ \A key \in MapKeys(a) :
                        ApplyPrim("=", <<MapGet(a, key), MapGet(b, key)>>, atoms).v = TrueV))]_vars

\* C9: = on two values of different variants, other than a List with a
\* Vector, is false.
C9_CrossVariantFalse ==
    [][(/\ AboutToCompare
        /\ Top.acc[1].t # Top.acc[2].t
        /\ ~(IsSeq(Top.acc[1]) /\ IsSeq(Top.acc[2])))
       => ret' = Val(FalseV)]_vars

\* (= "a" :a) has returned false
C9_Witness ==
    /\ stdin = <<Form("=", <<String(<<"a">>), Keyword("a")>>)>>
    /\ repl = "eval" /\ stack = <<>>
    /\ ret = Val(FalseV)

\* C10: a let* whose bindings are no List or Vector, or are odd in number,
\* never stops the REPL: rep returns a message, which is printed, and the
\* top-level environment is as it was.
C10_LetShapeErrorReported ==
    (pos = 1 /\ stdin[1] \in LetShapeErrors)
      => /\ repl # "crashed"
         /\ envs[1].data = default_env
         /\ repl \in {"prompt", "eof"} => Len(stdout) = 1


\* the line being evaluated is a call of an arithmetic primitive
ArithLine ==
    /\ pos >= 1
    /\ stdin[pos].t = "list" /\ Len(stdin[pos].v) > 0
    /\ stdin[pos].v[1].t = "sym" /\ stdin[pos].v[1].v \in ArithOps

\* C11: whatever an arithmetic primitive (+ - * / %) raises, on a non-Number
\* argument, on fewer than two arguments or on a zero divisor, is a
\* MalException, and the REPL goes on.
C11_ArithmeticErrorsAreMal ==
    ArithLine
      => /\ repl # "crashed"
         /\ ret.k = "exc" => ret.v.v.cls \in MalException

\* the quotient rounded toward zero
TruncDiv(a, b) ==
    LET abs(n) == IF n < 0 THEN -n ELSE n
        q == abs(a) \div abs(b)
    IN IF (a < 0) = (b < 0) THEN q ELSE -q

\* C17: (/ a b) with b # 0 returns the greatest integer q with q * b <= a
\* (b > 0) or q * b >= a (b < 0), the quotient rounded toward minus infinity;
\* it differs from the quotient rounded toward zero exactly when a and b have
\* opposite signs and b does not divide a.
C17_FloorDivision ==
    [][(/\ AboutToApply("/") /\ Len(Top.acc) = 2
        /\ Top.acc[1].t = "num" /\ Top.acc[2].t = "num" /\ Top.acc[2].v # 0)
       => LET a == Top.acc[1].v
              b == Top.acc[2].v
          IN /\ ret'.k = "val" /\ ret'.v.t = "num"
             /\ LET q == ret'.v.v
                IN /\ IF b > 0 THEN q * b <= a /\ a < (q + 1) * b
                               ELSE q * b >= a /\ a > (q + 1) * b
                   /\ (q # TruncDiv(a, b))
                        <=> (((a < 0) # (b < 0)) /\ a # 0 /\ (a % (IF b < 0 THEN -b ELSE b)) # 0)]_vars

\* (/ -3 2) has returned -2
C17_Witness ==
    /\ stdin = <<Form("/", <<Number(-3), Number(2)>>)>>
    /\ repl = "eval" /\ stack = <<>>
    /\ ret = Val(Number(-2))


\* the parameters of a closure take n arguments: as many as the parameters
\* before the & marker, or more when there is one
Fixed(params) ==
    IF \E i \in 1..Len(params) : params[i].v = "&"
    THEN (CHOOSE i \in 1..Len(params) :
            params[i].v = "&" /\ \A j \in 1..(i - 1) : params[j].v # "&") - 1
    ELSE Len(params)
ArityOk(params, n) ==
    /\ Fixed(params) <= n
    /\ (\E i \in 1..Len(params) : params[i].v = "&") \/ n = Fixed(params)

\* swap! is about to be called on an Atom and a Closure
SwapClosure ==
    /\ AboutToApply("swap!") /\ Len(Top.acc) >= 2
    /\ Top.acc[1].t = "atom" /\ Top.acc[2].t = "closure"

\* C12: a closure applied to a number of arguments its parameters do not
\* take, in call position or by swap!, raises a MAL error: the application
\* never goes on to the body, and never raises a host exception.
C12_WrongArityRejected ==
    [][/\ (Resuming("head") /\ ret.v.t = "closure"
             /\ ~ArityOk(ret.v.v.params, Len(Top.ast.v) - 1))
          => ret'.k = "exc" /\ ret'.v.v.cls \in MalException
       /\ (SwapClosure /\ ~ArityOk(Top.acc[2].v.params, Len(Top.acc) - 1))
          => ret'.k = "exc" /\ ret'.v.v.cls \in MalException]_vars

\* the arguments swap! hands to the function: the atom's value, then x1 ... xn
SwapArgs == <<atoms[Top.acc[1].v]>> \o SubSeq(Top.acc, 3, Len(Top.acc))

\* C13: (swap! a f x1 ... xn) calls f on the atom's value followed by
\* x1 ... xn (a primitive at once; a closure by running its body with its
\* parameters bound to them), stores what f returns in the atom and returns
\* it; deref returns the atom's value, which only reset! and swap! change.
C13_SwapStoresResult ==
    [][/\ (/\ AboutToApply("swap!") /\ Len(Top.acc) >= 2
           /\ Top.acc[1].t = "atom" /\ Top.acc[2].t = "fn"
           /\ Top.acc[2].v \notin {"swap!", "eval"})
          => LET r == ApplyPrim(Top.acc[2].v, SwapArgs, atoms)
             IN r.k = "val"
                  => /\ ret' = Val(r.v)
                     /\ atoms' = [atoms EXCEPT ![Top.acc[1].v] = r.v]
       /\ (SwapClosure /\ ArityOk(Top.acc[2].v.params, Len(Top.acc) - 1))
          => LET f == Top.acc[2].v
                 k == Fixed(f.params)
             IN /\ Len(envs') = Len(envs) + 1
                /\ envs'[Len(envs')].outer = f.env
                /\ \A i \in 1..k : envs'[Len(envs')].data[f.params[i].v] = SwapArgs[i]
                /\ k < Len(f.params)
                     => envs'[Len(envs')].data[f.params[k + 2].v]
                          = List(SubSeq(SwapArgs, k + 1, Len(SwapArgs)))
                /\ stack'[Len(stack')].ast = f.body
                /\ stack'[Len(stack')].env = Len(envs')
                /\ stack'[Len(stack') - 1].pend = <<Top.acc[1].v>>
                /\ atoms' = atoms
       /\ (Resuming("prim") /\ Top.pend # <<>>)
          => /\ ret' = Val(ret.v)
             /\ \A i \in 1..Len(Top.pend) : atoms'[Top.pend[i]] = ret.v
       /\ (AboutToApply("deref") /\ Len(Top.acc) = 1 /\ Top.acc[1].t = "atom")
          => ret' = Val(atoms[Top.acc[1].v]) /\ atoms' = atoms
       /\ \A a \in 1..Len(atoms) :
            atoms'[a] # atoms[a]
              => \/ AboutToApply("swap!")
                 \/ AboutToApply("reset!")
                 \/ Resuming("prim") /\ \E i \in 1..Len(Top.pend) : Top.pend[i] = a]_vars

\* a is 5: (swap! a - 2) printed 3, and so did (deref a)
C13_Witness ==
    /\ Len(stdin) = 5
    /\ stdin[2] = Form("swap!", <<Symbol("a"), Symbol("-"), Number(2)>>)
    /\ Len(stdout) >= 3
    /\ stdout[2] = <<"3">> /\ stdout[3] = <<"3">>
    /\ atoms = <<Number(3)>>

\* a is 5: (swap! a (fn* (x y) (- x y)) 2) printed 3, and so did (deref a)
C13_WitnessClosure ==
    /\ Len(stdin) = 5
    /\ stdin[2] = Form("swap!", <<Symbol("a"),
                                  Fn(<<"x", "y">>, Form("-", <<Symbol("x"), Symbol("y")>>)),
                                  Number(2)>>)
    /\ Len(stdout) >= 3
    /\ stdout[2] = <<"3">> /\ stdout[3] = <<"3">>


\* the running invocation was begun by the eval primitive, on the argument e
BegunByEval(e) ==
    /\ Running /\ Len(stack) >= 2
    /\ stack[Len(stack) - 1].pc = "prim"
    /\ stack[Len(stack) - 1].f = Function("eval")
    /\ stack[Len(stack) - 1].acc = <<e>>
    /\ Top.ast = e

\* C14: eval evaluates its argument in the top-level environment, whatever
\* the environment of the call: a symbol handed to eval gets its value from
\* the top-level table alone (or is not found), and a def! handed to eval
\* binds in the top-level table and in no other.
C14_EvalAtTopLevel ==
    [][/\ (AboutToApply("eval") /\ Len(Top.acc) = 1)
          => /\ stack' = Append(Below, [Top EXCEPT !.pc = "prim"]) \o <<Frame(Top.acc[1], 1)>>
             /\ envs' = envs
       /\ (AtTop /\ Top.ast.t = "sym" /\ BegunByEval(Top.ast))
          => IF Top.ast.v \in DOMAIN envs[1].data
             THEN ret' = Val(envs[1].data[Top.ast.v])
             ELSE ret'.k = "exc" /\ ret'.v.v.cls = "SymbolNotFound"
       /\ (Resuming("def") /\ BegunByEval(Top.ast))
          => /\ envs'[1].data[Top.ast.v[2].v] = ret.v
             /\ \A e \in 2..Len(envs) : envs'[e] = envs[e]]_vars

\* x is 1 at top level: (let* (x 5) (eval (read-string "x"))) printed 1, and
\* (let* (x 5) (eval (read-string "(def! z x)"))) made z 1 at top level
C14_Witness ==
    /\ Len(stdin) = 4
    /\ stdin[2] = Form("let*", <<List(<<Symbol("x"), Number(5)>>),
                                 Form("eval", <<ReadString("(def! z x)")>>)>>)
    /\ pos = 4 /\ repl = "prompt"
    /\ stdout = <<<<"1">>, <<"1">>, <<"1">>, <<"1">>>>
    /\ envs[1].data["z"] = Number(1)
    /\ \E e \in 2..Len(envs) : envs[e].data = [n \in {"x"} |-> Number(5)]


\* read-string is about to be called on the text cs
AboutToRead(cs) ==
    AboutToApply("read-string") /\ Top.acc = <<String(cs)>>

\* the text cs holds one complete expression, well-formed, and then more tokens
HasTrailingInput(cs) ==
    LET ts == Lex(cs, 1)
        r == expression(ts, 1)
    IN r.ok /\ RaisedIn(r.v) = {} /\ r.next <= Len(ts)

\* C15: when the String handed to read-string holds a complete expression
\* followed by further tokens, read-string returns the first expression and
\* raises no error.
C15_TrailingInputIgnored ==
    [][(AboutToApply("read-string") /\ Len(Top.acc) = 1 /\ Top.acc[1].t = "str"
          /\ HasTrailingInput(Top.acc[1].v))
        => ret' = Val(expression(Lex(Top.acc[1].v, 1), 1).v)]_vars

\* the readable printed form of x, as text
Printed(x) == Chars(Pretty(atoms, x, TRUE, {}).s)

\* C16: for every Expression x that read-string produces, the readable
\* printed form of x parses, and parses to x; read-string called on the
\* printed form returns x.
C16_PrintReadRoundTrip ==
    [][(AboutToApply("read-string") /\ Len(Top.acc) = 1 /\ Top.acc[1].t = "str"
          /\ parse_str(Top.acc[1].v).ok)
        => LET x == parse_str(Top.acc[1].v).v
               again == parse_str(Printed(x))
           IN /\ ret' = Val(x)
              /\ Pretty(atoms, x, TRUE, {}).ok
              /\ again.ok /\ again.v = x
              /\ ApplyPrim("read-string", <<String(Printed(x))>>, atoms).k = "val"
              /\ ApplyPrim("read-string", <<String(Printed(x))>>, atoms).v = x]_vars

\* read-string is about to read back the printed form of a String that holds
\* a newline, a backslash and a double quote
C16_Witness ==
    /\ Running /\ Len(stack) = 1
    /\ Top.ast = Form("read-string", <<Form("pr-str", <<ReadString("\"a\\nb\\\\c\\\"d\"")>>)>>)
    /\ AboutToRead(Explode("\"a\\nb\\\\c\\\"d\""))
    /\ parse_str(Top.acc[1].v).v = String(<<"a", "\n", "b", "\\", "c", "\"", "d">>)

\* ... and of a List with a Vector, a Keyword and a String inside
C16_WitnessNested ==
    /\ Running /\ Len(stack) = 1
    /\ Top.ast = Form("read-string", <<Form("pr-str", <<ReadString("(1 (2 [3 :a]) \"s\")")>>)>>)
    /\ AboutToRead(Explode("(1 (2 [3 :a]) \"s\")"))


\* a session of TwiceSessions has ended
TwiceDone == Len(stdin) = 7 /\ stdin[3] = Snapshot /\ stdin[4] = stdin[6] /\ pos = 7
             /\ repl = "prompt" /\ Len(stdout) = 7

\* C18: evaluation is deterministic: when the same expression is evaluated
\* twice and the bindings and atom contents are the same before both runs,
\* both runs have the same outcome (the same value or the same error) and
\* leave the same bindings and atom contents.
C18_Deterministic ==
    (TwiceDone /\ stdout[3] = stdout[5]) => (stdout[4] = stdout[6] /\ stdout[5] = stdout[7])

\* ... which holds of the expressions whose value shows no closure
C18_DeterministicButIdentity ==
    (TwiceDone /\ stdout[3] = stdout[5] /\ stdin[4] # Form("pr-str", <<Fn(<<>>, Number(1))>>))
      => (stdout[4] = stdout[6] /\ stdout[5] = stdout[7])

\* two runs from equal snapshots that do have the same outcome
C18_WitnessSame ==
    TwiceDone /\ stdin[4] = Form("eval", <<ReadString("(+ x 1)")>>) /\ stdout[3] = stdout[5]
      /\ stdout[4] = <<"2">> /\ stdout[6] = <<"2">>


\* a session of LetSessions is past its let* line
AfterLet == Len(stdin) = 3 /\ stdin[1] = DefX /\ stdin[2] \in LetForms
            /\ (pos = 3 \/ (pos = 2 /\ repl = "prompt"))

\* C19: bindings made by let* never leak.  Entering a let* makes a new
\* Environment whose outer is the environment E of the let* and changes no
\* existing table; every binding of the let* is written to that new
\* Environment and changes no other table; so after the let*, whether it
\* returned or raised, the top-level table is what it was (x is 1, and none
\* of the names the let* bound is there).
C19_LetDoesNotLeak ==
    [][/\ (AtTop /\ IsForm(Top.ast, "let*"))
          => /\ \A e \in 1..Len(envs) : envs'[e] = envs[e]
             /\ Len(envs') > Len(envs)
                  => /\ envs'[Len(envs')] = [data |-> EmptyDict, outer |-> Top.env]
                     /\ \A i \in 1..Len(stack') :
                          stack'[i].env = Len(envs') => i >= Len(stack)
       /\ Resuming("let")
          => /\ \A e \in 1..Len(envs) : e # Top.env => envs'[e] = envs[e]
             /\ Top.env # 1
             /\ envs'[Top.env].data[Top.ast.v[2].v[Top.i + 1].v] = ret.v
       /\ (AfterLet => envs[1].data = DictSet(default_env, "x", Number(1)))'
       /\ (AfterLet /\ pos = 3 /\ repl = "prompt" => stdout[3] = <<"1">>)']_vars

\* (let* (x 5 y x) (+ x y)) returned 10 and x is 1 afterwards
C19_Witness ==
    /\ AfterLet /\ pos = 3 /\ repl = "prompt"
    /\ stdin[2] = Let(<<Symbol("x"), Number(5), Symbol("y"), Symbol("x")>>,
                      Form("+", <<Symbol("x"), Symbol("y")>>))
    /\ stdout = <<<<"1">>, <<"1", "0">>, <<"1">>>>
    /\ \E e \in 2..Len(envs) : envs[e].data = [n \in {"x", "y"} |-> Number(5)]

\* (let* (x 5 y nope) x) raised after binding x, and x is 1 afterwards
C19_WitnessRaised ==
    /\ AfterLet /\ pos = 3 /\ repl = "prompt"
    /\ stdin[2] = Let(<<Symbol("x"), Number(5), Symbol("y"), Symbol("nope")>>, Symbol("x"))
    /\ stdout[3] = <<"1">>
    /\ \E e \in 2..Len(envs) : envs[e].data = [n \in {"x"} |-> Number(5)]


\* the environments from e outwards, e first
RECURSIVE OuterChain(_)
OuterChain(e) == IF e = 0 THEN <<>> ELSE <<e>> \o OuterChain(envs[e].outer)
\* the places of OuterChain(e) whose table binds name
Binders(e, name) == {i \in 1..Len(OuterChain(e)) : name \in DOMAIN envs[OuterChain(e)[i]].data}
Nearest(e, name) == OuterChain(e)[CHOOSE i \in Binders(e, name) : \A j \in Binders(e, name) : i <= j]

\* C20: looking a symbol up returns the value bound in the nearest
\* environment on the outer chain that binds the name (the environment
\* itself first), so an inner binding shadows the outer ones; it raises
\* SymbolNotFound only when no environment on the chain binds the name; and
\* it changes no table.
C20_FindNearestBinding ==
    [][(AtTop /\ Top.ast.t = "sym")
        => /\ envs' = envs
           /\ IF Binders(Top.env, Top.ast.v) = {}
              THEN ret'.k = "exc" /\ ret'.v.v.cls = "SymbolNotFound"
              ELSE ret' = Val(envs[Nearest(Top.env, Top.ast.v)].data[Top.ast.v])]_vars

\* x is looked up where three environments on the chain bind it to
\* different values
C20_Witness ==
    /\ AtTop /\ Top.ast = Symbol("x")
    /\ Len(OuterChain(Top.env)) = 3
    /\ Binders(Top.env, "x") = {1, 2, 3}
    /\ envs[Top.env].data["x"] = Number(6)
    /\ envs[envs[Top.env].outer].data["x"] = Number(5)
    /\ envs[1].data["x"] = Number(1)

\* a name no environment on the chain binds is looked up from inside a let*
C20_WitnessNotFound ==
    /\ AtTop /\ Top.ast = Symbol("nope") /\ Len(OuterChain(Top.env)) = 2
    /\ Binders(Top.env, "nope") = {}


\* the outer of every Environment but the top-level one is an Environment
\* made before it, and the top-level one has none
OuterTree ==
    /\ envs[1].outer = 0
    /\ \A e \in 2..Len(envs) : envs[e].outer \in 1..(e - 1)

\* C21: the environments form a tree rooted at the top-level environment:
\* from every Environment the outer chain reaches the top-level one, which
\* has no outer, and no step changes the outer of an existing Environment
\* (or removes one).
C21_EnvironmentTree ==
    [][/\ OuterTree'
       /\ Len(envs') >= Len(envs)
       /\ \A e \in 1..Len(envs) : envs'[e].outer = envs[e].outer
       /\ \A e \in 1..Len(envs') : OuterChain(e)'[Len(OuterChain(e)')] = 1]_vars

\* the Environments of a let*, of a closure called inside it and of a swap!
\* with a closure made inside that call, each under the one before
C21_Witness ==
    /\ stdin \in TreeSessions /\ pos = 3 /\ repl = "prompt"
    /\ Len(envs) = 4
    /\ envs[2] = [data |-> [n \in {"k"} |-> Number(1)], outer |-> 1]
    /\ envs[3] = [data |-> [n \in {"n"} |-> Number(2)], outer |-> 2]
    /\ envs[4] = [data |-> [n \in {"v"} |-> Number(5)], outer |-> 3]
    /\ atoms = <<Number(8)>>


\* every HashMap inside the value x has String and Keyword keys only
RECURSIVE KeysOk(_)
KeysOk(x) ==
    CASE x.t \in {"list", "vec"} -> \A i \in 1..Len(x.v) : KeysOk(x.v[i])
      [] x.t = "map" ->
           \A i \in 1..Len(x.v) : x.v[i][1].t \in {"str", "kw"} /\ KeysOk(x.v[i][2])
      [] x.t = "closure" -> KeysOk(x.v.body)
      [] OTHER -> TRUE
\* ... for every value the state holds
KeysOkEverywhere ==
    /\ ret.k = "val" => KeysOk(ret.v)
    /\ \A i \in 1..Len(atoms) : KeysOk(atoms[i])
    /\ \A e \in 1..Len(envs) : \A n \in DOMAIN envs[e].data : KeysOk(envs[e].data[n])
    /\ \A i \in 1..Len(stack) :
         /\ KeysOk(stack[i].ast) /\ KeysOk(stack[i].f)
         /\ \A k \in 1..Len(stack[i].acc) : KeysOk(stack[i].acc[k])
\* the keys of a HashMap in the order of its items
KeysOf(m) == [i \in 1..Len(m.v) |-> m.v[i][1]]

\* C22: every HashMap in every reachable state has String and Keyword keys
\* only; read-string rejects a text whose hash-map literal has another key
\* or a key without a value, and whatever it returns has such keys only;
\* evaluating a non-empty HashMap returns a HashMap with the same keys whose
\* values are the evaluations of the literal's values, in order.
C22_HashMapKeys ==
    [][/\ KeysOkEverywhere'
       /\ \A t \in BadMapTexts :
            AboutToRead(Explode(t)) => ret'.k = "exc" /\ ret'.v.v.cls = "ParsingError"
       /\ (AboutToApply("read-string") /\ ret'.k = "val") => KeysOk(ret'.v)
       /\ (Resuming("hash_map") /\ Len(Top.acc) + 1 = Len(Top.ast.v))
          => /\ ret'.k = "val" /\ ret'.v.t = "map"
             /\ KeysOf(ret'.v) = KeysOf(Top.ast)
             /\ [i \in 1..Len(ret'.v.v) |-> ret'.v.v[i][2]] = Append(Top.acc, ret.v)
       /\ (Resuming("hash_map") /\ Len(Top.acc) + 1 < Len(Top.ast.v))
          => /\ Len(stack') = Len(stack) + 1
             /\ stack'[Len(stack')] = Frame(Top.ast.v[Len(Top.acc) + 2][2], Top.env)]_vars

\* {:a (+ x 2) "b" x :c {:d [x]}} evaluated where x is 1
C22_Witness ==
    /\ stdin = <<DefX, MapLiteral>> /\ pos = 2 /\ repl = "eval" /\ stack = <<>>
    /\ ret = Val(HashMap(<<<<Keyword("a"), Number(3)>>, <<String(<<"b">>), Number(1)>>,
                           <<Keyword("c"),
                             HashMap(<<<<Keyword("d"), Vector(<<Number(1)>>)>>>>)>>>>))

\* read-string has rejected {1 2}
C22_WitnessRejected ==
    /\ stdin = <<ReadString("{1 2}")>> /\ Running
    /\ ret.k = "exc" /\ ret.v.v.cls = "ParsingError"


RECURSIVE Factorial(_)
Factorial(n) == IF n <= 1 THEN 1 ELSE n * Factorial(n - 1)
\* line n of the session has been printed
Printed_line(n) == pos > n \/ (pos = n /\ repl = "prompt")

\* C23: a closure resolves the free symbols of its body when it is called,
\* through the environment it captured: fact, which calls itself by its
\* top-level name, returns n! ((fact 6) is 720); a closure over the top-level
\* k returns the value k has when the closure is called, also when called
\* from a let* that binds another k; a closure made in a let* returns the
\* let*'s k whatever the top-level k is; a name bound after the closure was
\* made is found by a later call and is not found by an earlier one.
C23_ClosureResolvesAtCall ==
    /\ (stdin[1] = FactDef /\ Printed_line(2))
         => stdout[2] = IntChars(Factorial(stdin[2].v[2].v))
    /\ (stdin[1] = DefK(1) /\ Len(stdin) = 6)
         => /\ Printed_line(3) => stdout[3] = <<"1">>
            /\ Printed_line(5) => stdout[5] = <<"2">>
            /\ Printed_line(6) => stdout[6] = <<"2">>
    /\ (stdin[Len(stdin)] = List(<<Symbol("h")>>) /\ Printed_line(3)) => stdout[3] = <<"5">>
    /\ (stdin[1] = Form("def!", <<Symbol("f"), Fn(<<>>, Symbol("k"))>>) /\ Len(stdin) = 4)
         => /\ Printed_line(2) => Len(stdout[2]) > 1
            /\ Printed_line(4) => stdout[4] = <<"3">>

\* (fact 6) has printed 720
C23_Witness ==
    /\ stdin = <<FactDef, Form("fact", <<Number(6)>>)>> /\ pos = 2 /\ repl = "prompt"
    /\ stdout[2] = <<"7", "2", "0">>

\* the closure over k was called before and after k was bound again
C23_WitnessRebound ==
    /\ stdin[1] = DefK(1) /\ Len(stdin) = 6 /\ pos = 6 /\ repl = "prompt"
    /\ stdout[3] = <<"1">> /\ stdout[5] = <<"2">> /\ stdout[6] = <<"2">>


\* the invocation goes on with the evaluation of argument k of its call
EvaluatesArgument(k) ==
    /\ Len(stack') = Len(stack) + 1
    /\ stack'[Len(stack')] = Frame(Top.ast.v[k + 1], Top.env)
    /\ stack'[Len(stack)].pc = "args" /\ Len(stack'[Len(stack)].acc) = k - 1
    /\ ret' = NoRet
\* ... with the application, all n arguments evaluated
Applies(n) ==
    /\ Len(stack') = Len(stack) /\ stack'[Len(stack)].pc = "apply"
    /\ Len(stack'[Len(stack)].acc) = n /\ ret' = NoRet

\* C24: in a call (a non-empty List whose head is no special form) the head
\* is evaluated first, in the environment of the call; once it has returned,
\* the arguments are evaluated one after the other from the left, each once,
\* and the callable is applied only when all of them have returned.
C24_ApplyOrder ==
    [][/\ (AtTop /\ Top.ast.t = "list" /\ Len(Top.ast.v) > 0
             /\ ~(Top.ast.v[1].t = "sym" /\ Top.ast.v[1].v \in SpecialForms))
          => /\ Len(stack') = Len(stack) + 1
             /\ stack'[Len(stack')] = Frame(Top.ast.v[1], Top.env)
             /\ stack'[Len(stack)].pc = "head"
       /\ Resuming("head")
          => IF Len(Top.ast.v) > 1 THEN EvaluatesArgument(1) ELSE Applies(0)
       /\ Resuming("args")
          => /\ stack'[Len(stack)].acc = Append(Top.acc, ret.v)
             /\ IF Len(Top.acc) + 2 < Len(Top.ast.v) THEN EvaluatesArgument(Len(Top.acc) + 2)
                ELSE Applies(Len(Top.ast.v) - 1)
       /\ (Running /\ Top.pc = "apply") => Len(Top.acc) = Len(Top.ast.v) - 1]_vars

\* ... which holds when the head returns a primitive, or a closure with as
\* many parameters as the call has arguments
C24_ApplyOrderOfCallables ==
    [][/\ (Resuming("head")
             /\ (ret.v.t = "fn"
                   \/ (ret.v.t = "closure" /\ Len(ret.v.v.params) = Len(Top.ast.v) - 1)))
          => IF Len(Top.ast.v) > 1 THEN EvaluatesArgument(1) ELSE Applies(0)
       /\ Resuming("args")
          => /\ stack'[Len(stack)].acc = Append(Top.acc, ret.v)
             /\ IF Len(Top.acc) + 2 < Len(Top.ast.v) THEN EvaluatesArgument(Len(Top.acc) + 2)
                ELSE Applies(Len(Top.ast.v) - 1)
       /\ (Running /\ Top.pc = "apply") => Len(Top.acc) = Len(Top.ast.v) - 1
       /\ (stdin = <<List(<<Form("do", <<Prn(0), Fn(<<"a", "b">>, Prn(3))>>), Prn(1), Prn(2)>>)>>
             /\ pos = 1 /\ repl = "prompt")'
          => (stdout = <<<<"0">>, <<"1">>, <<"2">>, <<"3">>, <<"n", "i", "l">>>>)']_vars

\* ((do (prn 0) (fn* (a b) (prn 3))) (prn 1) (prn 2)) has printed 0 1 2 3
C24_WitnessOrder ==
    /\ stdin = <<List(<<Form("do", <<Prn(0), Fn(<<"a", "b">>, Prn(3))>>), Prn(1), Prn(2)>>)>>
    /\ pos = 1 /\ repl = "prompt" /\ Len(stdout) = 5


\* the invocation, running (do E1 ... En), goes on with the evaluation of
\* Ek in its own environment: through a call when k < n, and for En by
\* going round its loop, so that the value of En is the value of the do
EvaluatesDoForm(k) ==
    /\ stack'[Len(stack')] = Frame(Top.ast.v[k + 1], Top.env)
    /\ ret' = NoRet
    /\ IF k < Len(Top.ast.v) - 1
       THEN /\ Len(stack') = Len(stack) + 1
            /\ stack'[Len(stack)].pc = "do" /\ stack'[Len(stack)].i = k
            /\ stack'[Len(stack)].ast = Top.ast /\ stack'[Len(stack)].env = Top.env
       ELSE Len(stack') = Len(stack)
    /\ SubSeq(stack', 1, Len(stack) - 1) = Below

\* C25: (do E1 ... En), n >= 1, evaluates E1, and when Ek has returned it
\* evaluates Ek+1, each once and each in the environment of the do; En is
\* evaluated in tail position, so its value is the value of the do. (do)
\* raises EmptyDoBlock and evaluates nothing. An expression that raises ends
\* the do with its exception.
C25_DoInOrder ==
    [][/\ (AtTop /\ IsForm(Top.ast, "do"))
          => IF Len(Top.ast.v) = 1
             THEN /\ ret'.k = "exc" /\ ret'.v.v.cls = "EmptyDoBlock"
                  /\ Len(stack') = Len(stack)
                  /\ UNCHANGED <<envs, atoms, stdout, nclosures>>
             ELSE EvaluatesDoForm(1)
       /\ Resuming("do") => EvaluatesDoForm(Top.i + 1)
       /\ (pos = 1 /\ repl = "prompt")'
          => /\ (stdin[1] = Form("do", <<Prn(1), Prn(2), Number(3)>>)
                  => stdout = <<<<"1">>, <<"2">>, <<"3">>>>)'
             /\ (stdin[1] = Form("do", <<Form("do", <<Prn(1), Prn(2)>>), Prn(3)>>)
                  => stdout = <<<<"1">>, <<"2">>, <<"3">>, <<"n", "i", "l">>>>)'
             /\ (stdin[1] = Form("do", <<Prn(1), Symbol("nope"), Prn(3)>>)
                  => (Len(stdout) = 2 /\ stdout[1] = <<"1">>))'
             /\ (stdin[1] = Form("do", <<>>) => Len(stdout) = 1)'
             /\ (stdin[1] = List(<<Fn(<<"x">>, Form("do", <<Prn(1), Symbol("x")>>)), Number(4)>>)
                  => stdout = <<<<"1">>, <<"4">>>>)'
             /\ (stdin[1] = DoInLet => stdout = <<<<"1">>, <<"2">>>>)']_vars

\* (do (do (prn 1) (prn 2)) (prn 3)) has printed 1 2 3 nil
C25_Witness ==
    /\ stdin = <<Form("do", <<Form("do", <<Prn(1), Prn(2)>>), Prn(3)>>)>>
    /\ pos = 1 /\ repl = "prompt"
    /\ stdout = <<<<"1">>, <<"2">>, <<"3">>, <<"n", "i", "l">>>>

\* (do) has raised EmptyDoBlock
C25_WitnessEmpty ==
    /\ stdin = <<Form("do", <<>>)>> /\ Running
    /\ ret.k = "exc" /\ ret.v.v.cls = "EmptyDoBlock"


\* the invocation, running an if, goes round its loop with the branch:
\* the only evaluation of a branch there is
TakesBranch(branch) ==
    /\ stack' = Append(Below, Frame(branch, Top.env))
    /\ ret' = NoRet

\* C26: (if C T E) and (if C T) evaluate C, once, and when it has returned
\* go on with T alone when the value is neither nil nor false, and otherwise
\* with E alone; without an E, (if C T) returns nil and evaluates nothing
\* more. The output shows the condition's effect once and the effect of the
\* branch taken, never the other's.
C26_IfOneBranch ==
    [][/\ (AtTop /\ IsForm(Top.ast, "if") /\ Len(Top.ast.v) \in {3, 4})
          => /\ stack' = Append(Below, [Top EXCEPT !.pc = "if"]) \o <<Frame(Top.ast.v[2], Top.env)>>
             /\ ret' = NoRet
       /\ Resuming("if")
          => /\ ret.v.t \notin {"nil", "false"} => TakesBranch(Top.ast.v[3])
             /\ (ret.v.t \in {"nil", "false"} /\ Len(Top.ast.v) = 4) => TakesBranch(Top.ast.v[4])
             /\ (ret.v.t \in {"nil", "false"} /\ Len(Top.ast.v) = 3)
                  => (stack' = Below /\ ret' = Val(Nil))
             /\ UNCHANGED <<envs, atoms, stdout, nclosures>>
       /\ \A c \in Conditions :
            /\ (stdin = <<IfElse(c)>> /\ pos = 1 /\ repl = "prompt")'
                 => (stdout = <<<<"0">>, IF c.t \in {"nil", "false"} THEN <<"2">> ELSE <<"1">>,
                                <<"n", "i", "l">>>>)'
            /\ (stdin = <<IfThen(c)>> /\ pos = 1 /\ repl = "prompt")'
                 => (stdout = IF c.t \in {"nil", "false"} THEN <<<<"0">>, <<"n", "i", "l">>>>
                              ELSE <<<<"0">>, <<"1">>, <<"n", "i", "l">>>>)'
       /\ (stdin = <<Form("if", <<Form("if", <<Nil, Prn(1)>>), Prn(2),
                                   Form("if", <<TrueV, Prn(3), Prn(4)>>)>>)>>
             /\ pos = 1 /\ repl = "prompt")'
          => (stdout = <<<<"3">>, <<"n", "i", "l">>>>)']_vars

\* (if (do (prn 0) nil) (prn 1)) has printed 0 and nil, and not 1
C26_Witness ==
    /\ stdin = <<IfThen(Nil)>> /\ pos = 1 /\ repl = "prompt"
    /\ stdout = <<<<"0">>, <<"n", "i", "l">>>>

\* (if (do (prn 0) 0) (prn 1) (prn 2)) has printed 0, 1 and nil, and not 2
C26_WitnessZero ==
    /\ stdin = <<IfElse(Number(0))>> /\ pos = 1 /\ repl = "prompt"
    /\ stdout = <<<<"0">>, <<"1">>, <<"n", "i", "l">>>>


\* the let* of the running invocation is well formed up to binding k (1-based)
LetShape(k) ==
    /\ Len(Top.ast.v) = 3 /\ IsSeq(Top.ast.v[2]) /\ Len(Top.ast.v[2].v) % 2 = 0
    /\ 2 * k <= Len(Top.ast.v[2].v) => Top.ast.v[2].v[2 * k - 1].t = "sym"
\* the invocation goes on in child: with the expression of binding k when
\* there is one, and with BODY otherwise
LetGoesOn(child, k) ==
    /\ ret' = NoRet
    /\ IF 2 * k <= Len(Top.ast.v[2].v)
       THEN /\ Len(stack') = Len(stack) + 1
            /\ stack'[Len(stack')] = Frame(Top.ast.v[2].v[2 * k], child)
            /\ stack'[Len(stack)].pc = "let" /\ stack'[Len(stack)].i = 2 * (k - 1)
            /\ stack'[Len(stack)].env = child /\ stack'[Len(stack)].ast = Top.ast
       ELSE /\ Len(stack') = Len(stack)
            /\ stack'[Len(stack')] = Frame(Top.ast.v[3], child)

\* C27: let* makes one child Environment of the environment it is evaluated
\* in and evaluates every binding expression and BODY in that child; when
\* the expression of binding k has returned, its value is stored under the
\* k-th symbol in the child before the next expression (or BODY) is
\* evaluated, and what bindings 1..k-1 stored is still there; names the
\* child does not bind are found in the outer environments.
\* (let* (a 10 b (+ a 5)) (* a b)) is 150.
C27_LetSequential ==
    [][/\ (AtTop /\ IsForm(Top.ast, "let*") /\ LetShape(1))
          => /\ envs' = Append(envs, [data |-> EmptyDict, outer |-> Top.env])
             /\ LetGoesOn(Len(envs) + 1, 1)
       /\ (Resuming("let") /\ LetShape(Top.i \div 2 + 2))
          => /\ envs' = [envs EXCEPT ![Top.env].data =
                            DictSet(@, Top.ast.v[2].v[Top.i + 1].v, ret.v)]
             /\ \A j \in 1..(Top.i \div 2 + 1) :
                  Top.ast.v[2].v[2 * j - 1].v \in DOMAIN envs'[Top.env].data
             /\ LetGoesOn(Top.env, Top.i \div 2 + 2)
       /\ (stdin = <<LetAB>> /\ pos = 1 /\ repl = "prompt")' => (stdout = <<<<"1", "5", "0">>>>)'
       /\ (stdin = <<DefX, LetYXZ>> /\ pos = 2 /\ repl = "prompt")' => (stdout[2] = <<"1", "5">>)'
       /\ (stdin = <<DefX, LetABC>> /\ pos = 2 /\ repl = "prompt")'
          => (stdout = <<<<"1">>, <<"3">>, <<"n", "i", "l">>>>)']_vars

\* (let* (a 10 b (+ a 5)) (* a b)) has printed 150
C27_Witness ==
    /\ stdin = <<LetAB>> /\ pos = 1 /\ repl = "prompt" /\ stdout = <<<<"1", "5", "0">>>>
    /\ envs[Len(envs)].data = [n \in {"a", "b"} |-> IF n = "a" THEN Number(10) ELSE Number(15)]

\* the expression of b is evaluated where a is already bound
C27_WitnessSees ==
    /\ stdin = <<LetAB>> /\ AtTop /\ Top.ast = Form("+", <<Symbol("a"), Number(5)>>)
    /\ envs[Top.env].data = [n \in {"a"} |-> Number(10)]


\* a session of DefSessions is past its second line
AfterDef == Len(stdin) = 3 /\ stdin[1] = DefX /\ stdin[2] \in DefForms
            /\ (pos = 3 \/ (pos = 2 /\ repl = "prompt"))

\* C28: (def! S V) evaluates V in the environment E of the def! and changes
\* no table in doing so; when V has returned, S is bound to the value in the
\* table of E, every other Environment is left as it was, and the value is
\* returned; when V raises, the def! is left without any table changed.  So
\* a def! in a let* body or in a closure body leaves the top-level x alone.
C28_DefBindsHere ==
    [][/\ (AtTop /\ IsForm(Top.ast, "def!") /\ Len(Top.ast.v) = 3)
          => /\ stack' = Append(Below, stack'[Len(stack)]) \o <<Frame(Top.ast.v[3], Top.env)>>
             /\ stack'[Len(stack)].pc = "def" /\ stack'[Len(stack)].env = Top.env
             /\ Top.ast.v[2].t = "sym" => stack'[Len(stack)].f = Top.ast.v[2]
             /\ envs' = envs
       /\ Resuming("def")
          => /\ envs'[Top.env] = [envs[Top.env] EXCEPT !.data = DictSet(@, Top.f.v, ret.v)]
             /\ Len(envs') = Len(envs)
             /\ \A e \in 1..Len(envs) : e # Top.env => envs'[e] = envs[e]
             /\ stack' = Below /\ ret' = Val(ret.v)
       /\ (Running /\ ret.k = "exc" /\ Top.pc = "def") => (envs' = envs /\ atoms' = atoms)
       /\ (AfterDef /\ stdin[2] # DefAgain => envs[1].data = DictSet(default_env, "x", Number(1)))'
       /\ (AfterDef /\ pos = 3 /\ repl = "prompt")'
          => /\ (stdin[2] = DefInLet => stdout = <<<<"1">>, <<"9">>, <<"1">>>>)'
             /\ (stdin[2] = DefInClosure => stdout = <<<<"1">>, <<"7">>, <<"1">>>>)'
             /\ (stdin[2] = DefUnderTwo => stdout = <<<<"1">>, <<"6">>, <<"1">>>>)'
             /\ (stdin[2] \in {DefRaises, DefRaisesInLet} => stdout[3] = <<"1">>)'
             /\ (stdin[2] = DefAgain => stdout = <<<<"1">>, <<"2">>, <<"2">>>>)']_vars

\* (let* (x 2) (+ (let* (z 3) (do (def! x 4) x)) x)): the def! has bound x
\* in the innermost Environment; the let* around it and the top level keep theirs
C28_Witness ==
    /\ stdin = <<DefX, DefUnderTwo, Symbol("x")>> /\ Running
    /\ Top.ast = Symbol("x") /\ Len(OuterChain(Top.env)) = 3
    /\ envs[Top.env].data = [n \in {"z", "x"} |-> IF n = "z" THEN Number(3) ELSE Number(4)]
    /\ envs[envs[Top.env].outer].data = [n \in {"x"} |-> Number(2)]
    /\ envs[1].data["x"] = Number(1)

\* (def! x nope) has raised and x is still 1
C28_WitnessRaised ==
    /\ AfterDef /\ pos = 3 /\ repl = "prompt"
    /\ stdin[2] = DefRaises /\ stdout[3] = <<"1">>


\* in a session of AgreeSessions the application through swap! has ended,
\* with a value or an exception; line 3 of the output is what the
\* application in call position printed
SwapEnded ==
    /\ \E fn \in AgreeFns, extra \in AgreeExtras : stdin = AgreeSession(fn, extra)
    /\ pos = 4 /\ repl = "eval" /\ stack = <<>> /\ ret.k # "none"
\* the two applications ended alike: with the same value, or both with a
\* MAL error
EndedAlike ==
    IF ret.k = "val" THEN stdout[3] = Pretty(atoms, ret.v, TRUE, {}).s
    ELSE /\ ret.v.v.cls \in MalException
         /\ \/ stdout[3] = ExcStr(atoms, ret.v).s
            \/ stdout[3][1] = "Error! bad number of arguments for:\n"

\* C29: a closure applied to the same arguments in call position and
\* through swap! (which calls f.closure) ends alike: the same value, or a
\* MAL error both times, whatever the number of arguments.
C29_ApplyWaysAgree == SwapEnded => EndedAlike

\* ... which holds when the call has as many arguments as the closure has
\* parameters, the & marker and the name after it counted as two
C29_ApplyWaysAgreeOnEqualLength ==
    (SwapEnded /\ Len(stdin[2].v[3].v[2].v) = Len(stdin[3].v) - 1) => EndedAlike

\* (f 5 2) raised BadNumberOfArguments and (swap! a f 2) returned 6, f being
\* (fn* (x) (+ x 1))
C29_WitnessDiffer ==
    /\ stdin = AgreeSession(Fn(<<"x">>, Form("+", <<Symbol("x"), Number(1)>>)), <<Number(2)>>)
    /\ SwapEnded /\ ret = Val(Number(6))
    /\ stdout[3][1] = "Error! bad number of arguments for:\n"


\* the atom at address n holds itself: directly, or through Lists, Vectors,
\* HashMap values and other Atoms
RECURSIVE AtomsIn(_, _)
AtomsIn(x, seen) ==
    CASE x.t \in {"list", "vec"} -> UNION {AtomsIn(x.v[i], seen) : i \in 1..Len(x.v)}
      [] x.t = "map" -> UNION {AtomsIn(x.v[i][2], seen) : i \in 1..Len(x.v)}
      [] x.t = "atom" ->
           IF x.v \in seen THEN {x.v} ELSE {x.v} \cup AtomsIn(atoms[x.v], seen \cup {x.v})
      [] OTHER -> {}
HoldsItself(n) == n \in AtomsIn(atoms[n], {})

\* a value is about to be printed by rep
AboutToPrint == repl = "eval" /\ stack = <<>> /\ ret.k = "val"

\* C30: printing returns a string: rep's print_mal of the value of a line,
\* and prn, println, pr-str and str of their arguments, never end in
\* the interpreter's recursion limit, also when an Atom holds itself.
C30_PrintingTerminates ==
    /\ AboutToPrint => Pretty(atoms, ret.v, TRUE, {}).ok
    /\ (ret.k = "exc" \/ repl = "crashed") => ret.v.v.cls # "RecursionError"

\* ... which holds as long as no Atom holds itself through another object:
\* an Atom whose value is that very Atom prints as Atom(value=...)
C30_PrintingTerminatesWithoutCycle ==
    /\ (AboutToPrint /\ \A n \in 1..Len(atoms) : HoldsItself(n) => atoms[n] = Atom(n))
         => Pretty(atoms, ret.v, TRUE, {}).ok
    /\ (AboutToPrint /\ ret.v = Atom(1) /\ atoms[1] = Atom(1))
         => Pretty(atoms, ret.v, TRUE, {}).s = <<"Atom(value=", "...", ")">>

\* a is printed while it holds (list a)
C30_WitnessCycle ==
    /\ AboutToPrint /\ ret.v = Atom(1) /\ atoms[1] = List(<<Atom(1)>>)
    /\ ~Pretty(atoms, ret.v, TRUE, {}).ok

\* a is printed while it holds a
C30_WitnessSelf ==
    /\ AboutToPrint /\ ret.v = Atom(1) /\ atoms[1] = Atom(1)

=============================================================================
